---- MODULE Spec2Model ----
(***************************************************************************)
(* A model of conda/install.py: the package linking engine (link, unlink,  *)
(* the linked-metadata store, the locks it takes) and the duplicate        *)
(* reaper.                                                                 *)
(*                                                                         *)
(* Strings the code splits, compares or sorts (distribution keys) are      *)
(* sequences of one-character strings; paths are sequences of components.  *)
(***************************************************************************)
EXTENDS Integers, Sequences, FiniteSets, TLC

VARIABLES
    pkg,            \* the extracted package: info/files, info/has_prefix, ...
    files,          \* the prefix on disk: path -> node (regular file or link)
    dirs,           \* the prefix on disk: the directories that exist
    metaFiles,      \* <prefix>/conda-meta/<tail>.json files: {[tail, rec]}
    sidecars,       \* <prefix>/conda-meta/<tail>.files files: {[tail, lines]}
    cachePatched,   \* files of the extracted tree whose bytes were rewritten
    linked_data_,   \* the in-memory linked store of the prefix
    pc,             \* where the engine is inside link / unlink
    cur,            \* the call in progress
    last,           \* the call that returned last, with the state it left
    nOps,           \* calls started so far
    dist_metas,     \* duplicates_to_remove: first argument (a set of dists)
    keep_dists,     \* duplicates_to_remove: second argument
    dup_res,        \* duplicates_to_remove: the returned (sorted) list
    dup_again,      \* the list returned when the call is applied again
    dup_pc,         \* "input" before the call, "returned" after it
    lk_prog,        \* per engine instance: the operation it runs, as steps
    lk_pc,          \* per engine instance: the step it is at (0: none)
    lk_held,        \* per engine instance: the directories it holds locked
    b_in,           \* update_prefix: [mode, data, a, b], the file bytes,
                    \* the placeholder and the new prefix
    b_file,         \* update_prefix: the file on disk, [data, inode]
    b_out,          \* update_prefix: how the call ended
    b_pc,           \* "input", then "updated", then "exit" or "meta"
    c_disk,         \* the package cache directory: archives, extracted
                    \* directories and the lines of urls.txt
    package_cache_, \* the cache index: key -> [files, dirs, urls]
    fname_table,    \* archive path -> channel prefix
    c_last,         \* the cache operation that ended last
    c_ops,          \* cache operations so far
    c_scans,        \* scans of the cache directory so far
    r_in,           \* rm_rf: the path given, what it is and what fails
    r_node,         \* rm_rf: the path now: whether it exists, its entries,
                    \* and the shutil.rmtree calls made
    r_pc,           \* rm_rf: "call", "rmtree", "rmdir", "returned", "idle"
    r_warn,         \* rm_rf: the warnings logged
    t_in,           \* try_hard_link: the prefix before the call and what the
                    \* operating system allows
    t_dirs,         \* try_hard_link: the directories now
    t_files,        \* try_hard_link: the files under the prefix now
    t_pc,           \* try_hard_link: position in the function
    t_res,          \* try_hard_link: the value returned, whether os.link
                    \* made the link
    s_environ,      \* run_script: os.environ of the engine's process
    s_given,        \* run_script: the env given to the script run last
    s_call,         \* run_script: the arguments of the last call
    s_n             \* run_script: calls made so far

engineVars == <<pkg, files, dirs, metaFiles, sidecars, cachePatched,
                linked_data_, pc, cur, last, nOps>>

dupVars == <<dist_metas, keep_dists, dup_res, dup_again, dup_pc>>

lockVars == <<lk_prog, lk_pc, lk_held>>

bytesVars == <<b_in, b_file, b_out, b_pc>>

cacheVars == <<c_disk, package_cache_, fname_table, c_last, c_ops, c_scans>>

rmVars == <<r_in, r_node, r_pc, r_warn>>

probeVars == <<t_in, t_dirs, t_files, t_pc, t_res>>

scriptVars == <<s_environ, s_given, s_call, s_n>>

auxVars == <<bytesVars, cacheVars, rmVars, probeVars, scriptVars>>

vars == <<engineVars, dupVars, lockVars, auxVars>>

(***************************************************************************)
(* Bounds of the model.                                                    *)
(***************************************************************************)
MaxDists == 3       \* largest dist_metas given to duplicates_to_remove
MaxKeep == 2        \* largest keep_dists given to duplicates_to_remove
MaxManifest == 3    \* most lines of info/files
MaxHasPrefix == 1   \* most entries of info/has_prefix
MaxOps == 2         \* most calls of link / unlink in one run
NEngines == 2       \* engine instances (processes) running side by side
MaxData == 4        \* most bytes of a file given to update_prefix
MaxPlaceholder == 2 \* most bytes of a placeholder
MaxUrlLines == 2    \* most lines of urls.txt at the start
MaxCacheOps == 2    \* most operations on the package cache in one run
MaxEntries == 3     \* most entries of a directory given to rm_rf

(***************************************************************************)
(* Strings.                                                                *)
(***************************************************************************)
\* Code point of a character: Python compares str by code point.
Ord(c) ==
    CASE c = "-" -> 45
      [] c = "0" -> 48
      [] c = "1" -> 49
      [] c = "2" -> 50
      [] c = ":" -> 58
      [] c = "_" -> 95
      [] c = "a" -> 97
      [] c = "c" -> 99
      [] c = "d" -> 100
      [] c = "e" -> 101
      [] c = "f" -> 102
      [] c = "g" -> 103
      [] c = "h" -> 104
      [] c = "l" -> 108
      [] c = "s" -> 115
      [] c = "t" -> 116
      [] c = "u" -> 117
      [] c = "x" -> 120

\* a < b for Python str: the first differing character decides, a proper
\* prefix is smaller.
StrLess(a, b) ==
    \E i \in 1..(Len(b)) :
        /\ \A j \in 1..(i - 1) : j <= Len(a) /\ a[j] = b[j]
        /\ \/ i = Len(a) + 1
           \/ i <= Len(a) /\ Ord(a[i]) < Ord(b[i])

\* Whether sub occurs in s at index i.
OccursAt(s, sub, i) ==
    /\ i >= 1
    /\ i + Len(sub) - 1 <= Len(s)
    /\ \A j \in 1..Len(sub) : s[i + j - 1] = sub[j]

\* Index of the first / last occurrence of sub in s, 0 when there is none.
FindFirst(s, sub) ==
    IF \E i \in 1..Len(s) : OccursAt(s, sub, i)
    THEN CHOOSE i \in 1..Len(s) :
            /\ OccursAt(s, sub, i)
            /\ \A j \in 1..(i - 1) : ~OccursAt(s, sub, j)
    ELSE 0

FindLast(s, sub) ==
    IF \E i \in 1..Len(s) : OccursAt(s, sub, i)
    THEN CHOOSE i \in 1..Len(s) :
            /\ OccursAt(s, sub, i)
            /\ \A j \in (i + 1)..Len(s) : ~OccursAt(s, sub, j)
    ELSE 0

\* s.split(sep, 1)[-1]
SplitOnceLast(s, sep) ==
    LET i == FindFirst(s, sep)
    IN  IF i = 0 THEN s ELSE SubSeq(s, i + Len(sep), Len(s))

\* s.split(sep, 1)[0]
SplitOnceFirst(s, sep) ==
    LET i == FindFirst(s, sep)
    IN  IF i = 0 THEN s ELSE SubSeq(s, 1, i - 1)

\* s.rsplit(sep, 1)[0]
RSplitOnceHead(s, sep) ==
    LET i == FindLast(s, sep)
    IN  IF i = 0 THEN s ELSE SubSeq(s, 1, i - 1)

\* s.rsplit(sep, 2)[0]
RSplitTwiceHead(s, sep) == RSplitOnceHead(RSplitOnceHead(s, sep), sep)

ChannelSep == <<":", ":">>
Dash == <<"-">>
Defaults == <<"d", "e", "f", "a", "u", "l", "t", "s">>

\* _dist2pair(dist) = (schannel, dname)
_dist2pair(dist) ==
    IF FindFirst(dist, ChannelSep) = 0
    THEN <<Defaults, dist>>
    ELSE <<SplitOnceFirst(dist, ChannelSep), SplitOnceLast(dist, ChannelSep)>>

\* name_dist(dist): the tail without its last two '-' fields
name_dist(dist) == RSplitTwiceHead(SplitOnceLast(dist, ChannelSep), Dash)

\* _dist2filename(dist, suffix) without the suffix: the bare tail
_dist2filename(dist) == SplitOnceLast(dist, ChannelSep)

(***************************************************************************)
(* Distribution keys used by the model.                                    *)
(***************************************************************************)
D_f10 == <<"f", "-", "1", "-", "0">>
D_f20 == <<"f", "-", "2", "-", "0">>
D_f21 == <<"f", "-", "2", "-", "1">>
D_cf10 == <<"c", ":", ":", "f", "-", "1", "-", "0">>
D_g10 == <<"g", "-", "1", "-", "0">>
D_fx10 == <<"f", "-", "x", "-", "1", "-", "0">>
D_cache == <<"_", "c", "a", "c", "h", "e", "-", "1", "-", "0">>

(***************************************************************************)
(* The duplicate reaper.                                                   *)
(***************************************************************************)
\* sorted(S) as a sequence
RECURSIVE SortedSeq(_)
SortedSeq(S) ==
    IF S = {} THEN <<>>
    ELSE LET m == CHOOSE x \in S : \A y \in S : y = x \/ StrLess(x, y)
         IN  <<m>> \o SortedSeq(S \ {m})

\* set(sorted(dists)[:-1])
AllButGreatest(dists) ==
    LET s == SortedSeq(dists)
    IN  {s[i] : i \in 1..(Len(s) - 1)}

\* What one name group contributes to res (the loop body).
GroupRemovalsNoKeep(dists, keep) ==
    IF Cardinality(dists) = 1 THEN {}
    ELSE AllButGreatest(dists)

GroupRemovalsFirstOnly(dists, keep) ==
    IF Cardinality(dists) = 1 THEN {}
    ELSE IF dists \cap keep # {} THEN dists \ keep
    ELSE LET s == SortedSeq(dists) IN {s[1]}

GroupRemovalsWholeGroup(dists, keep) ==
    IF Cardinality(dists) = 1 THEN {}
    ELSE IF dists \cap keep # {} THEN dists \ keep
    ELSE dists

GroupRemovals(dists, keep) ==
    IF Cardinality(dists) = 1 THEN {}
    ELSE IF dists \cap keep # {} THEN dists \ keep
    ELSE AllButGreatest(dists)

\* ldists: name -> set of dists with that name
ldists(dms) == [n \in {name_dist(d) : d \in dms} |-> {d \in dms : name_dist(d) = n}]

duplicates_to_remove(dms, keep) ==
    LET groups == ldists(dms)
    IN  SortedSeq(UNION {GroupRemovals(groups[n], keep) : n \in DOMAIN groups})

Range(s) == {s[i] : i \in 1..Len(s)}

DupUniverse == {D_f10, D_f20, D_f21, D_cf10, D_g10, D_fx10}

(***************************************************************************)
(* Paths.  A path is the sequence of its components; the prefix is /env.   *)
(***************************************************************************)
PREFIX == <<"env">>
MetaDir == PREFIX \o <<"conda-meta">>

\* The files a manifest (info/files) may name, relative to the prefix.
FA == <<"a">>
FB == <<"lib", "b">>
FC == <<"lib", "sub", "c">>
FD == <<"bin", "d">>
\* A file of another package.
FO == <<"lib", "o">>
\* A manifest line that is an absolute path, /outer/x: "/" marks the root.
FX == <<"/", "outer", "x">>

\* len() of one path component
NameLen(c) ==
    CASE c = "env" -> 3
      [] c = "conda-meta" -> 10
      [] c = "lib" -> 3
      [] c = "sub" -> 3
      [] c = "bin" -> 3
      [] c = "outer" -> 5
      [] OTHER -> 1

\* len(path) of the path string: "/" + component, for each component
RECURSIVE PathLen(_)
PathLen(p) == IF p = <<>> THEN 0 ELSE 1 + NameLen(Head(p)) + PathLen(Tail(p))

\* os.path.join(prefix, f): an absolute f discards the prefix
join(prefix, f) ==
    IF f # <<>> /\ Head(f) = "/" THEN Tail(f) ELSE prefix \o f

\* os.path.dirname(path)
dirname(p) == IF p = <<>> THEN p ELSE SubSeq(p, 1, Len(p) - 1)

\* os.makedirs(d): d and every missing ancestor
makedirs(ds, d) == ds \cup {SubSeq(d, 1, k) : k \in 1..Len(d)}

\* Position of a manifest name in sorted() order: "/outer/x" < "a" <
\* "bin/d" < "lib/b" < "lib/o" < "lib/sub/c".
FileRank(f) ==
    CASE f = FX -> 0
      [] f = FA -> 1
      [] f = FD -> 2
      [] f = FB -> 3
      [] f = FO -> 4
      [] f = FC -> 5

RECURSIVE SortedFiles(_)
SortedFiles(S) ==
    IF S = {} THEN <<>>
    ELSE LET m == CHOOSE x \in S : \A y \in S : FileRank(x) <= FileRank(y)
         IN  <<m>> \o SortedFiles(S \ {m})

EmptyFn == [x \in {} |-> x]

Remove(fn, p) == [q \in DOMAIN fn \ {p} |-> fn[q]]

Put(fn, p, v) == [q \in DOMAIN fn \cup {p} |-> IF q = p THEN v ELSE fn[q]]

(***************************************************************************)
(* The extracted package and the nodes of the prefix.                      *)
(***************************************************************************)
LINK_HARD == 1
LINK_SOFT == 2
LINK_COPY == 3

link_name_map(lt) ==
    CASE lt = LINK_HARD -> "hard-link"
      [] lt = LINK_SOFT -> "soft-link"
      [] lt = LINK_COPY -> "copy"

\* A regular file: whose bytes (orig), whether the placeholder in them was
\* rewritten, and whether the inode is the package cache's (a hard link).
Reg(orig, patched, ino) ==
    [kind |-> "reg", orig |-> orig, patched |-> patched, ino |-> ino,
     target |-> <<>>]

\* A symbolic link with a relative target, resolved to a path of the prefix.
RelSym(target) ==
    [kind |-> "relsym", orig |-> <<>>, patched |-> FALSE, ino |-> "own",
     target |-> target]

\* A symbolic link to file f of the extracted tree (LINK_SOFT).
Soft(f) ==
    [kind |-> "soft", orig |-> <<>>, patched |-> FALSE, ino |-> "own",
     target |-> f]

\* The relative target of the one source file that may be a symlink:
\* lib/sub/c -> ../b
SymTarget(f) == FB

\* os.path.islink(src)
islink_src(p, f) == f \in p.symlinks /\ f \notin p.missing

\* os.path.exists(path) inside the prefix: follows symbolic links.  A
\* relative link's target is lib/b, which is never itself a relative link.
exists(fl, p, path) ==
    /\ path \in DOMAIN fl
    /\ LET n == fl[path]
       IN  CASE n.kind = "reg" -> TRUE
             [] n.kind = "soft" -> n.target \notin p.missing
             [] n.kind = "relsym" ->
                    /\ n.target \in DOMAIN fl
                    /\ \/ fl[n.target].kind = "reg"
                       \/ /\ fl[n.target].kind = "soft"
                          /\ fl[n.target].target \notin p.missing

\* _link(src, dst, linktype): [ok, fl], an OSError being ok = FALSE.
\* src is <source_dir>/f; patchedSrc tells whether its bytes were rewritten.
_link(fl, ds, p, patchedSrc, f, dst, lt) ==
    CASE lt = LINK_HARD ->
            \* os.link: the source must exist, the destination must not
            IF f \in p.missing \/ dst \in DOMAIN fl
            THEN [ok |-> FALSE, fl |-> fl]
            ELSE IF f \in p.symlinks
            THEN [ok |-> TRUE, fl |-> Put(fl, dst, RelSym(join(PREFIX, SymTarget(f))))]
            ELSE [ok |-> TRUE, fl |-> Put(fl, dst, Reg(f, patchedSrc, "cache"))]
      [] lt = LINK_SOFT ->
            \* os.symlink: only the destination must not exist
            IF dst \in DOMAIN fl
            THEN [ok |-> FALSE, fl |-> fl]
            ELSE [ok |-> TRUE, fl |-> Put(fl, dst, Soft(f))]
      [] lt = LINK_COPY ->
            IF islink_src(p, f)
            THEN \* copy relative symlinks as symlinks
                 IF dst \in DOMAIN fl
                 THEN [ok |-> FALSE, fl |-> fl]
                 ELSE [ok |-> TRUE,
                       fl |-> Put(fl, dst, RelSym(join(PREFIX, SymTarget(f))))]
            ELSE \* shutil.copy2: reads src, writes through whatever dst is
                 IF f \in p.missing
                 THEN [ok |-> FALSE, fl |-> fl]
                 ELSE IF dst \notin DOMAIN fl
                 THEN [ok |-> TRUE, fl |-> Put(fl, dst, Reg(f, patchedSrc, "own"))]
                 ELSE IF fl[dst].kind = "reg"
                 THEN [ok |-> TRUE,
                       fl |-> Put(fl, dst, Reg(f, patchedSrc, fl[dst].ino))]
                 ELSE IF fl[dst].kind = "relsym" /\ dirname(fl[dst].target) \in ds
                 THEN [ok |-> TRUE,
                       fl |-> Put(fl, fl[dst].target, Reg(f, patchedSrc, "own"))]
                 ELSE [ok |-> FALSE, fl |-> fl]

\* The link mode link() uses for manifest file f (lines 863-865).
FileLinkTypeNoSymlinkCheck(p, f, linktype) ==
    IF (\E e \in p.has_prefix : e.f = f) \/ f \in p.no_link
    THEN LINK_COPY
    ELSE linktype

FileLinkType(p, f, linktype) ==
    IF (\E e \in p.has_prefix : e.f = f) \/ f \in p.no_link \/ islink_src(p, f)
    THEN LINK_COPY
    ELSE linktype

\* Whether link() goes on to _link a file whose destination existed and was
\* unlinked first: it always does.
LinkAfterClobberOnlyIfNew(existed) == ~existed

LinkAfterClobber(existed) == TRUE

\* One pass of the loop over the manifest in link(): makedirs, unlink what
\* is there, choose the mode, _link; an OSError of _link is logged.
LinkOneFile(fl, ds, p, patched, f, linktype) ==
    LET dst == join(PREFIX, f)
        ds1 == makedirs(ds, dirname(dst))
        existed == exists(fl, p, dst)
        fl1 == IF existed THEN Remove(fl, dst) ELSE fl
        lt == FileLinkType(p, f, linktype)
        r == IF LinkAfterClobber(existed)
             THEN _link(fl1, ds1, p, f \in patched, f, dst, lt)
             ELSE [ok |-> FALSE, fl |-> fl1]
    IN  [fl |-> r.fl, ds |-> ds1, ok |-> r.ok, lt |-> lt, dst |-> dst]

(***************************************************************************)
(* The prefix rewriter, as far as the engine sees it.  An entry of         *)
(* info/has_prefix is [f, eff]: eff = "rewrite" when the new prefix fits   *)
(* (text mode, or binary mode with a long enough placeholder), "padding"   *)
(* when binary_replace raises PaddingError on bytes holding the            *)
(* placeholder.  Bytes already rewritten, and bytes of other packages,     *)
(* hold no placeholder: new_data == data.                                  *)
(***************************************************************************)
\* os.path.realpath(path): where the bytes live, the prefix or the cache.
realpath(fl, path) ==
    IF path \notin DOMAIN fl THEN [where |-> "prefix", path |-> path]
    ELSE LET n == fl[path]
         IN  CASE n.kind = "reg" -> [where |-> "prefix", path |-> path]
               [] n.kind = "soft" -> [where |-> "cache", path |-> n.target]
               [] n.kind = "relsym" ->
                    IF n.target \in DOMAIN fl /\ fl[n.target].kind = "soft"
                    THEN [where |-> "cache", path |-> fl[n.target].target]
                    ELSE [where |-> "prefix", path |-> n.target]

\* update_prefix(path, new_prefix, placeholder, mode):
\* out = "ioerror" (open fails), "padding" (PaddingError), "same" (nothing to
\* rewrite) or "written" (file removed and written anew).
update_prefix(fl, p, patched, path, eff) ==
    LET rp == realpath(fl, path)
        readable == IF rp.where = "prefix"
                    THEN rp.path \in DOMAIN fl /\ fl[rp.path].kind = "reg"
                    ELSE rp.path \notin p.missing
        holds == IF rp.where = "prefix"
                 THEN fl[rp.path].orig # <<"other">> /\ ~fl[rp.path].patched
                 ELSE rp.path \notin patched
    IN  IF ~readable THEN [out |-> "ioerror", fl |-> fl, patched |-> patched]
        ELSE IF ~holds THEN [out |-> "same", fl |-> fl, patched |-> patched]
        ELSE IF eff = "padding"
        THEN [out |-> "padding", fl |-> fl, patched |-> patched]
        ELSE IF rp.where = "prefix"
        THEN [out |-> "written",
              fl |-> Put(fl, rp.path, Reg(fl[rp.path].orig, TRUE, "own")),
              patched |-> patched]
        ELSE [out |-> "written", fl |-> fl, patched |-> patched \cup {rp.path}]

(***************************************************************************)
(* The linked-metadata store.  A store is a set of [key, rec]; the json    *)
(* files of conda-meta are a set of [tail, rec].                           *)
(***************************************************************************)
\* read_url(dist): the first url of the dist's package cache record; the
\* cache files a dist under the channel its url classifies to.
read_url(dist) == [schannel |-> _dist2pair(dist)[1], fn |-> _dist2filename(dist)]

\* url_channel(url)[1]: the short channel name of a url
url_channel(url) == url.schannel

\* cprefix + dname
DistKey(schannel, dname) ==
    IF schannel = Defaults THEN dname ELSE schannel \o ChannelSep \o dname

StorePut(S, key, rec) == {r \in S : r.key # key} \cup {[key |-> key, rec |-> rec]}

HasKey(S, key) == \E r \in S : r.key = key

Lookup(S, key) == (CHOOSE r \in S : r.key = key).rec

\* load_linked_data(prefix, dist, rec) with rec given: the record as stored
LinkedRecOf(dist, rec) ==
    [rec EXCEPT !.schannel = _dist2pair(dist)[1], !.fn = _dist2pair(dist)[2]]

LinkedKeyOf(dist) == DistKey(_dist2pair(dist)[1], _dist2pair(dist)[2])

\* load_linked_data(prefix, fn[:-5]) with rec read from the json file
LoadedFromDisk(m) ==
    [key |-> DistKey(url_channel(m.rec.url), m.tail),
     rec |-> [m.rec EXCEPT !.schannel = url_channel(m.rec.url), !.fn = m.tail]]

\* linked_data(prefix): the store, read from conda-meta on first use
linked_data(ld, mf) ==
    IF ld.loaded THEN ld.recs ELSE {LoadedFromDisk(m) : m \in mf}

\* linked(prefix)
linked(ld, mf) == {r.key : r \in linked_data(ld, mf)}

HasTail(S, tail) == \E m \in S : m.tail = tail

(***************************************************************************)
(* unlink's directory clean-up.                                            *)
(***************************************************************************)
\* os.rmdir succeeds on an existing, empty directory
DirEmpty(ds, fl, mf, sc, d) ==
    /\ \A q \in DOMAIN fl : dirname(q) # d
    /\ \A q \in ds : q = d \/ dirname(q) # d
    /\ d = MetaDir => mf = {} /\ sc = {}

rm_empty_dir(ds, fl, mf, sc, d) ==
    IF d \in ds /\ DirEmpty(ds, fl, mf, sc, d) THEN ds \ {d} ELSE ds

\* while len(path) > len(prefix): dst_dirs2.add(path); path = dirname(path)
WalkUp(path) ==
    {SubSeq(path, 1, k) : k \in {j \in 1..Len(path) :
        \A i \in j..Len(path) : PathLen(SubSeq(path, 1, i)) > PathLen(PREFIX)}}

\* dst_dirs2
UnlinkDirSetWithoutMeta(ufiles) ==
    UNION {WalkUp(dirname(join(PREFIX, f))) : f \in Range(ufiles)}
        \cup {PREFIX}

UnlinkDirSet(ufiles) ==
    UNION {WalkUp(dirname(join(PREFIX, f))) : f \in Range(ufiles)}
        \cup {MetaDir, PREFIX}

\* for path in sorted(dst_dirs2, key=len, reverse=True): rm_empty_dir(path).
\* Paths of one length are not nested, so their order changes nothing.
RECURSIVE RmDirsLongestFirst(_, _, _, _, _)
RmDirsLongestFirst(todo, ds, fl, mf, sc) ==
    IF todo = {} THEN ds
    ELSE LET d == CHOOSE x \in todo : \A y \in todo : PathLen(y) <= PathLen(x)
         IN  RmDirsLongestFirst(todo \ {d}, rm_empty_dir(ds, fl, mf, sc, d),
                                fl, mf, sc)

(***************************************************************************)
(* The engine: one process running link and unlink on the prefix.          *)
(***************************************************************************)
EngineDists == {D_f10, D_cf10, D_cache}

ManifestOrder == <<FA, FB, FC, FD>>

\* info/files: the first lines of ManifestOrder
Manifests ==
    {SubSeq(ManifestOrder, 1, n) :
        n \in 0..(IF MaxManifest < Len(ManifestOrder)
                  THEN MaxManifest ELSE Len(ManifestOrder))}
        \cup {<<FX>>}

HasPrefixEntries ==
    {[f |-> FB, eff |-> "rewrite"], [f |-> FB, eff |-> "padding"],
     [f |-> FC, eff |-> "rewrite"]}

Packages ==
    [files : Manifests,
     has_prefix : {S \in SUBSET HasPrefixEntries :
                      /\ Cardinality(S) <= MaxHasPrefix
                      /\ \A x, y \in S : x.f = y.f => x = y},
     no_link : {{FA}},
     symlinks : {{}, {FC}},
     missing : {{}, {FB}}]

IdleCur ==
    [kind |-> "none", dist |-> <<>>, lt |-> 0, idx |-> 0, installed |-> {},
     used |-> {}, failed |-> {}, todo |-> <<>>, ufiles |-> <<>>,
     status |-> "none", rec |-> <<>>, start |-> <<>>]

NoCall ==
    [kind |-> "none", dist |-> <<>>, lt |-> 0, installed |-> {},
     hadSidecar |-> FALSE, snap |-> <<>>]

\* What a caller can observe of the prefix after a call.
Observed(fl, mf, ld) ==
    [files |-> [q \in DOMAIN fl |-> [kind |-> fl[q].kind, orig |-> fl[q].orig,
                                     patched |-> fl[q].patched,
                                     target |-> fl[q].target]],
     metaFiles |-> mf,
     linked |-> linked_data(ld, mf)]

EngineInit ==
    /\ pkg \in Packages
    /\ \E pre \in {{}, {FA, FO}}, side \in BOOLEAN :
        /\ files = [q \in {join(PREFIX, f) : f \in pre} |-> Reg(<<"other">>, FALSE, "own")]
        /\ sidecars = IF side
                      THEN {[tail |-> _dist2filename(D_f10), lines |-> <<FB>>]}
                      ELSE {}
        /\ dirs = UNION ({makedirs({}, dirname(join(PREFIX, f))) : f \in pre}
                         \cup {IF side THEN makedirs({}, MetaDir) ELSE {}})
    /\ metaFiles = {}
    /\ cachePatched = {}
    /\ linked_data_ = [loaded |-> FALSE, recs |-> {}]
    /\ pc = "idle"
    /\ cur = IdleCur
    /\ last = NoCall
    /\ nOps = 0

\* The fixed state of the engine in specifications about something else.
EngineIdle ==
    /\ pkg = [files |-> <<>>, has_prefix |-> {}, no_link |-> {},
              symlinks |-> {}, missing |-> {}]
    /\ files = EmptyFn
    /\ dirs = {}
    /\ sidecars = {}
    /\ metaFiles = {}
    /\ cachePatched = {}
    /\ linked_data_ = [loaded |-> FALSE, recs |-> {}]
    /\ pc = "off"
    /\ cur = IdleCur
    /\ last = NoCall
    /\ nOps = 0

(***************************************************************************)
(* The prefix after link(prefix, 'f-1-0') and link(prefix, 'c::f-1-0') of  *)
(* one package, both with LINK_HARD: the two dists share                   *)
(* conda-meta/f-1-0.json, which holds the record written last, and the     *)
(* in-memory store holds a record under each key.                          *)
(***************************************************************************)
RelinkedPkg ==
    [files |-> <<FA, FB>>, has_prefix |-> {}, no_link |-> {FA},
     symlinks |-> {}, missing |-> {}]

\* the record create_meta builds for dist
RelinkedRec(dist) ==
    LinkedRecOf(dist, [url |-> read_url(dist), files |-> RelinkedPkg.files,
                       source |-> _dist2filename(dist),
                       type |-> link_name_map(LINK_HARD),
                       schannel |-> <<>>, fn |-> <<>>])

RelinkedInit ==
    /\ pkg = RelinkedPkg
    /\ files = [q \in {join(PREFIX, FA), join(PREFIX, FB)} |->
                   IF q = join(PREFIX, FA) THEN Reg(FA, FALSE, "own")
                   ELSE Reg(FB, FALSE, "cache")]
    /\ dirs = makedirs(makedirs({}, dirname(join(PREFIX, FB))), MetaDir)
    /\ sidecars = {}
    /\ cachePatched = {}
    /\ metaFiles = {[tail |-> _dist2filename(D_cf10), rec |-> RelinkedRec(D_cf10)]}
    /\ linked_data_ =
        [loaded |-> TRUE,
         recs |-> StorePut(StorePut({}, LinkedKeyOf(D_f10), RelinkedRec(D_f10)),
                           LinkedKeyOf(D_cf10), RelinkedRec(D_cf10))]
    /\ pc = "idle"
    /\ cur = IdleCur
    /\ last = [kind |-> "link", dist |-> D_cf10, lt |-> LINK_HARD,
               installed |-> {join(PREFIX, FA), join(PREFIX, FB)},
               hadSidecar |-> FALSE,
               snap |-> Observed(files, metaFiles, linked_data_)]
    /\ nOps = 0

CacheName == <<"_", "c", "a", "c", "h", "e">>

\* The order of link()'s steps after the loop over the manifest.
LinkNextPhaseMetaFirst(phase, dist) ==
    CASE phase = "files" ->
            IF name_dist(dist) = CacheName THEN "return" ELSE "meta"
      [] phase = "meta" -> "metadisk"
      [] phase = "metadisk" -> "rewrite"
      [] phase = "rewrite" -> "postlink"
      [] phase = "postlink" -> "return"

LinkNextPhaseNoCacheCase(phase, dist) ==
    CASE phase = "files" -> "rewrite"
      [] phase = "rewrite" -> "postlink"
      [] phase = "postlink" -> "meta"
      [] phase = "meta" -> "metadisk"
      [] phase = "metadisk" -> "return"

LinkNextPhase(phase, dist) ==
    CASE phase = "files" ->
            IF name_dist(dist) = CacheName THEN "return" ELSE "rewrite"
      [] phase = "rewrite" -> "postlink"
      [] phase = "postlink" -> "meta"
      [] phase = "meta" -> "metadisk"
      [] phase = "metadisk" -> "return"

\* Leave the current phase: to the next one, or out of link().
Goto(next, c) ==
    IF next = "return"
    THEN /\ pc' = "exit"
         /\ cur' = [c EXCEPT !.status = "done"]
    ELSE /\ pc' = next
         /\ cur' = c

\* sys.exit (status "aborted") or an uncaught exception (status "crashed")
Fail(status) ==
    /\ pc' = "exit"
    /\ cur' = [cur EXCEPT !.status = status]

\* link(prefix, dist, linktype) is called; every dist is extracted.
StartLink(d, lt) ==
    /\ pc = "idle"
    /\ nOps < MaxOps
    /\ nOps' = nOps + 1
    /\ pc' = "prelink"
    /\ cur' = [IdleCur EXCEPT !.kind = "link", !.dist = d, !.lt = lt,
                              !.status = "running",
                              !.start = [metaFiles |-> metaFiles,
                                         linked |-> linked(linked_data_, metaFiles),
                                         sidecars |-> sidecars,
                                         metaDir |-> MetaDir \in dirs,
                                         patched |-> cachePatched,
                                         sidecar |-> HasTail(sidecars, _dist2filename(d))]]
    /\ UNCHANGED <<auxVars, lockVars, dupVars, pkg, files, dirs, metaFiles, sidecars, cachePatched,
                   linked_data_, last>>

\* run_script(pre-link), then info/files, info/has_prefix, no_link are read.
PreLink ==
    /\ pc = "prelink"
    /\ \E ok \in BOOLEAN :
        IF ok
        THEN /\ pc' = "files"
             /\ cur' = [cur EXCEPT !.idx = 1,
                                   !.todo = SortedFiles({e.f : e \in pkg.has_prefix})]
        ELSE Fail("aborted")
    /\ UNCHANGED <<auxVars, lockVars, dupVars, pkg, files, dirs, metaFiles, sidecars, cachePatched,
                   linked_data_, last, nOps>>

\* One file of the manifest.
LinkFile ==
    /\ pc = "files"
    /\ cur.idx <= Len(pkg.files)
    /\ LET f == pkg.files[cur.idx]
           r == LinkOneFile(files, dirs, pkg, cachePatched, f, cur.lt)
       IN  /\ files' = r.fl
           /\ dirs' = r.ds
           /\ cur' = [cur EXCEPT
                        !.idx = @ + 1,
                        !.installed = IF r.ok THEN @ \cup {r.dst} ELSE @,
                        !.failed = IF r.ok THEN @ ELSE @ \cup {f},
                        !.used = @ \cup {[f |-> f, lt |-> r.lt]}]
    /\ UNCHANGED <<auxVars, lockVars, dupVars, pkg, metaFiles, sidecars, cachePatched, linked_data_, pc,
                   last, nOps>>

\* The manifest is done: return for _cache, else go on.
AfterFiles ==
    /\ pc = "files"
    /\ cur.idx > Len(pkg.files)
    /\ Goto(LinkNextPhase("files", cur.dist), cur)
    /\ UNCHANGED <<auxVars, lockVars, dupVars, pkg, files, dirs, metaFiles, sidecars, cachePatched,
                   linked_data_, last, nOps>>

\* One has_prefix file, in sorted order; after the last, mk_menus (the menu
\* collaborator, which touches nothing of the model).
Rewrite ==
    /\ pc = "rewrite"
    /\ IF cur.todo = <<>>
       THEN /\ Goto(LinkNextPhase("rewrite", cur.dist), cur)
            /\ UNCHANGED <<files, cachePatched>>
       ELSE LET f == Head(cur.todo)
                e == CHOOSE x \in pkg.has_prefix : x.f = f
                r == update_prefix(files, pkg, cachePatched, join(PREFIX, f), e.eff)
            IN  CASE r.out = "ioerror" ->
                        Fail("crashed") /\ UNCHANGED <<files, cachePatched>>
                  [] r.out = "padding" ->
                        Fail("aborted") /\ UNCHANGED <<files, cachePatched>>
                  [] OTHER ->
                        /\ files' = r.fl
                        /\ cachePatched' = r.patched
                        /\ pc' = pc
                        /\ cur' = [cur EXCEPT !.todo = Tail(@)]
    /\ UNCHANGED <<auxVars, lockVars, dupVars, pkg, dirs, metaFiles, sidecars, linked_data_, last, nOps>>

\* run_script(post-link)
PostLink ==
    /\ pc = "postlink"
    /\ \E ok \in BOOLEAN :
        IF ok THEN Goto(LinkNextPhase("postlink", cur.dist), cur)
        ELSE Fail("aborted")
    /\ UNCHANGED <<auxVars, lockVars, dupVars, pkg, files, dirs, metaFiles, sidecars, cachePatched,
                   linked_data_, last, nOps>>

\* The metadata is assembled (url, files from the .files sidecar if there is
\* one, which is then removed, link) and create_meta puts it into the
\* in-memory store: load_linked_data(prefix, dist, meta).
CreateMetaMem ==
    /\ pc = "meta"
    /\ LET tail == _dist2filename(cur.dist)
           side == HasTail(sidecars, tail)
           lines == IF side
                    THEN (CHOOSE m \in sidecars : m.tail = tail).lines
                    ELSE pkg.files
           meta == [url |-> read_url(cur.dist), files |-> lines,
                    source |-> tail, type |-> link_name_map(cur.lt),
                    schannel |-> <<>>, fn |-> <<>>]
           rec == LinkedRecOf(cur.dist, meta)
       IN  /\ sidecars' = {m \in sidecars : m.tail # tail}
           /\ linked_data_' =
                [loaded |-> TRUE,
                 recs |-> StorePut(linked_data(linked_data_, metaFiles),
                                   LinkedKeyOf(cur.dist), rec)]
           /\ Goto(LinkNextPhase("meta", cur.dist), [cur EXCEPT !.rec = rec])
    /\ UNCHANGED <<auxVars, lockVars, dupVars, pkg, files, dirs, metaFiles, cachePatched, last, nOps>>

\* create_meta writes <prefix>/conda-meta/<tail>.json
CreateMetaDisk ==
    /\ pc = "metadisk"
    /\ LET tail == _dist2filename(cur.dist)
       IN  /\ dirs' = makedirs(dirs, MetaDir)
           /\ metaFiles' = {m \in metaFiles : m.tail # tail}
                                \cup {[tail |-> tail, rec |-> cur.rec]}
    /\ Goto(LinkNextPhase("metadisk", cur.dist), cur)
    /\ UNCHANGED <<auxVars, lockVars, dupVars, pkg, files, sidecars, cachePatched, linked_data_, last,
                   nOps>>

\* unlink(prefix, dist) is called.
StartUnlink(d) ==
    /\ pc = "idle"
    /\ nOps < MaxOps
    /\ nOps' = nOps + 1
    /\ pc' = "u_load"
    /\ cur' = [IdleCur EXCEPT !.kind = "unlink", !.dist = d,
                              !.status = "running"]
    /\ UNCHANGED <<auxVars, lockVars, dupVars, pkg, files, dirs, metaFiles, sidecars, cachePatched,
                   linked_data_, last>>

\* run_script(pre-unlink), its result ignored; meta = load_meta(prefix, dist);
\* meta['files'] of a dist that is not linked raises TypeError; mk_menus.
UnlinkLoad ==
    /\ pc = "u_load"
    /\ LET recs == linked_data(linked_data_, metaFiles)
       IN  /\ linked_data_' = [loaded |-> TRUE, recs |-> recs]
           /\ IF HasKey(recs, cur.dist)
              THEN /\ pc' = "u_files"
                   /\ cur' = [cur EXCEPT !.ufiles = Lookup(recs, cur.dist).files,
                                         !.idx = 1]
              ELSE Fail("crashed")
    /\ UNCHANGED <<auxVars, lockVars, dupVars, pkg, files, dirs, metaFiles, sidecars, cachePatched, last,
                   nOps>>

\* os.unlink(join(prefix, f)); an OSError (no such file) is logged.
UnlinkFile ==
    /\ pc = "u_files"
    /\ cur.idx <= Len(cur.ufiles)
    /\ LET dst == join(PREFIX, cur.ufiles[cur.idx])
       IN  files' = IF dst \in DOMAIN files THEN Remove(files, dst) ELSE files
    /\ cur' = [cur EXCEPT !.idx = @ + 1]
    /\ UNCHANGED <<auxVars, lockVars, dupVars, pkg, dirs, metaFiles, sidecars, cachePatched, linked_data_,
                   pc, last, nOps>>

FilesAttemptedOrNot(c) == TRUE

\* the loop over meta['files'] has ended
FilesAttempted(c) == c.idx > Len(c.ufiles)

\* delete_linked_data(prefix, dist, delete=True)
UnlinkMeta ==
    /\ pc = "u_files"
    /\ FilesAttempted(cur)
    /\ linked_data_' = [linked_data_ EXCEPT !.recs = {r \in @ : r.key # cur.dist}]
    /\ metaFiles' = {m \in metaFiles : m.tail # _dist2filename(cur.dist)}
    /\ pc' = "u_dirs"
    /\ UNCHANGED <<auxVars, lockVars, dupVars, pkg, files, dirs, sidecars, cachePatched, cur, last,
                   nOps>>

\* The directories of the removed files, conda-meta and the prefix are
\* removed where empty, longest path first.
UnlinkDirs ==
    /\ pc = "u_dirs"
    /\ dirs' = RmDirsLongestFirst(UnlinkDirSet(cur.ufiles), dirs, files,
                                  metaFiles, sidecars)
    /\ pc' = "exit"
    /\ cur' = [cur EXCEPT !.status = "done"]
    /\ UNCHANGED <<auxVars, lockVars, dupVars, pkg, files, metaFiles, sidecars, cachePatched,
                   linked_data_, last, nOps>>

\* A call that completed returns to its caller.  A call ended by sys.exit or
\* by an exception nobody catches ends the process: pc stays "exit".
Return ==
    /\ pc = "exit"
    /\ cur.status = "done"
    /\ pc' = "idle"
    /\ last' = [kind |-> cur.kind, dist |-> cur.dist, lt |-> cur.lt,
                installed |-> cur.installed,
                hadSidecar |-> IF cur.kind = "link" THEN cur.start.sidecar ELSE FALSE,
                snap |-> Observed(files, metaFiles, linked_data_)]
    /\ cur' = IdleCur
    /\ UNCHANGED <<auxVars, lockVars, dupVars, pkg, files, dirs, metaFiles, sidecars, cachePatched,
                   linked_data_, nOps>>

\* The process is killed in the middle of a link: the disk stays as it is,
\* the in-memory store is gone (a new process reads conda-meta again).
Kill ==
    /\ pc \notin {"idle", "exit", "killed", "off"}
    /\ cur.kind = "link"
    /\ pc' = "killed"
    /\ cur' = [cur EXCEPT !.status = "killed"]
    /\ linked_data_' = [loaded |-> FALSE, recs |-> {}]
    /\ UNCHANGED <<auxVars, lockVars, dupVars, pkg, files, dirs, metaFiles, sidecars, cachePatched,
                   last, nOps>>

EngineNext ==
    \/ \E d \in EngineDists, lt \in {LINK_HARD, LINK_SOFT, LINK_COPY} : StartLink(d, lt)
    \/ PreLink
    \/ LinkFile
    \/ AfterFiles
    \/ Rewrite
    \/ PostLink
    \/ CreateMetaMem
    \/ CreateMetaDisk
    \/ \E d \in EngineDists : StartUnlink(d)
    \/ UnlinkLoad
    \/ UnlinkFile
    \/ UnlinkMeta
    \/ UnlinkDirs
    \/ Return
    \/ Kill

(***************************************************************************)
(* Locks.  Several engine instances run operations side by side; an        *)
(* operation is the sequence of its lock acquisitions, its mutations of a  *)
(* prefix or of a package cache directory, and its lock releases, in the   *)
(* order of the code.                                                      *)
(***************************************************************************)
Engines == 1..NEngines
LockPrefixes == {"P1", "P2"}
pkgs_dirs == <<"K1", "K2">>         \* config.pkgs_dirs
LockPkgsDirs == Range(pkgs_dirs)

Acq(d) == [op |-> "acq", dir |-> d, fatal |-> FALSE]
Rel(d) == [op |-> "rel", dir |-> d, fatal |-> FALSE]
Mut(d) == [op |-> "mut", dir |-> d, fatal |-> FALSE]
\* a step that may also end in sys.exit
MutOrExit(d) == [op |-> "mut", dir |-> d, fatal |-> TRUE]

Reverse(s) == [i \in 1..Len(s) |-> s[Len(s) + 1 - i]]

\* with Locked(d1), Locked(d2), ...: body
WithLocked(ds, body) ==
    [i \in 1..Len(ds) |-> Acq(ds[i])] \o body
        \o [i \in 1..Len(ds) |-> Rel(Reverse(ds)[i])]

\* the order of the two locks of link
LinkLockOrderCacheFirst(prefix, pkgs_dir) == <<pkgs_dir, prefix>>

LinkLockOrder(prefix, pkgs_dir) == <<prefix, pkgs_dir>>

\* link: the pre-link script, then under both locks the file loop, the
\* prefix rewrite, the post-link script and the metadata
link_steps(prefix, pkgs_dir) ==
    <<[op |-> "run", dir |-> prefix, fatal |-> TRUE]>> \o
    WithLocked(LinkLockOrder(prefix, pkgs_dir),
               <<Mut(prefix), MutOrExit(prefix), Mut(prefix)>>)

\* unlink: files, the meta file, the empty directories
unlink_steps(prefix) == WithLocked(<<prefix>>, <<Mut(prefix), Mut(prefix)>>)

\* extract: rm_rf(path), extractall
extract_steps(pkgs_dir) == WithLocked(<<pkgs_dir>>, <<Mut(pkgs_dir), Mut(pkgs_dir)>>)

\* for fname in ...: with Locked(dirname(fname)): rm_rf(fname)
RECURSIVE RmEach(_)
RmEach(ds) ==
    IF ds = <<>> THEN <<>>
    ELSE WithLocked(<<Head(ds)>>, <<Mut(Head(ds))>>) \o RmEach(Tail(ds))

\* rec.files and rec.dirs are given by the directories they are in
rm_fetched_steps(rec) == RmEach(rec.files) \o RmEach(rec.dirs)

rm_extracted_steps(rec) == RmEach(rec.dirs)

\* the probe link into the prefix, then rm_rf(dst) and rm_empty_dir(prefix)
try_hard_link_steps(pkgs_dir, prefix) == <<Mut(prefix), Mut(prefix)>>

\* rm_rf(<prefix>/.messages.txt)
messages_steps(prefix) == <<Mut(prefix)>>

\* add_cached_package(pdir, url, urlstxt=True): the append to urls.txt
add_cached_package_steps(pdir) == <<Mut(pdir)>>

\* delete_trash: rm_rf(<pkg_dir>/.trash) for every package directory
delete_trash_steps == [i \in 1..Len(pkgs_dirs) |-> Mut(pkgs_dirs[i])]

\* move_path_to_trash: delete_trash, then the move into the first directory
move_path_to_trash_steps == delete_trash_steps \o <<Mut(pkgs_dirs[1])>>

CacheRecs == [files : {<<k>> : k \in LockPkgsDirs}, dirs : {<<k>> : k \in LockPkgsDirs}]

Prog(name, steps) == [name |-> name, steps |-> steps]

NoProg == Prog("none", <<>>)

LockPrograms ==
    {Prog("link", link_steps(p, k)) : p \in LockPrefixes, k \in LockPkgsDirs}
    \cup {Prog("unlink", unlink_steps(p)) : p \in LockPrefixes}
    \cup {Prog("extract", extract_steps(k)) : k \in LockPkgsDirs}
    \cup {Prog("rm_fetched", rm_fetched_steps(r)) : r \in CacheRecs}
    \cup {Prog("rm_extracted", rm_extracted_steps(r)) : r \in CacheRecs}
    \cup {Prog("try_hard_link", try_hard_link_steps(k, p)) :
              p \in LockPrefixes, k \in LockPkgsDirs}
    \cup {Prog("messages", messages_steps(p)) : p \in LockPrefixes}
    \cup {Prog("add_cached_package", add_cached_package_steps(k)) : k \in LockPkgsDirs}
    \cup {Prog("move_path_to_trash", move_path_to_trash_steps)}

LockIdle ==
    /\ lk_prog = [e \in Engines |-> NoProg]
    /\ lk_pc = [e \in Engines |-> 0]
    /\ lk_held = [e \in Engines |-> {}]

AtStep(e) == lk_pc[e] \in 1..Len(lk_prog[e].steps)

Step(e) == lk_prog[e].steps[lk_pc[e]]

\* Locked.__enter__ can return: nobody holds the directory
LockFree(d) == \A e \in Engines : d \notin lk_held[e]

\* where an exception raised at step i leaves the with statement: at the
\* releases that follow, or at the end when no lock is held
ExitPoint(steps, i) ==
    IF \E j \in (i + 1)..Len(steps) : steps[j].op = "rel"
    THEN CHOOSE j \in (i + 1)..Len(steps) :
             /\ steps[j].op = "rel"
             /\ \A k \in (i + 1)..(j - 1) : steps[k].op # "rel"
    ELSE Len(steps) + 1

\* An engine instance is asked to run an operation.
LkStart(e) ==
    /\ lk_pc[e] = 0
    /\ \E pr \in LockPrograms : lk_prog' = [lk_prog EXCEPT ![e] = pr]
    /\ lk_pc' = [lk_pc EXCEPT ![e] = 1]
    /\ UNCHANGED <<lk_held, engineVars, dupVars, auxVars>>

\* with Locked(d): entering blocks while another instance holds d
LkAcquire(e) ==
    /\ AtStep(e)
    /\ Step(e).op = "acq"
    /\ LockFree(Step(e).dir)
    /\ lk_held' = [lk_held EXCEPT ![e] = @ \cup {Step(e).dir}]
    /\ lk_pc' = [lk_pc EXCEPT ![e] = @ + 1]
    /\ UNCHANGED <<lk_prog, engineVars, dupVars, auxVars>>

\* a script run or a mutation of a directory that goes well
LkMutate(e) ==
    /\ AtStep(e)
    /\ Step(e).op \in {"mut", "run"}
    /\ lk_pc' = [lk_pc EXCEPT ![e] = @ + 1]
    /\ UNCHANGED <<lk_prog, lk_held, engineVars, dupVars, auxVars>>

\* sys.exit in a step of link
LkExit(e) ==
    /\ AtStep(e)
    /\ Step(e).fatal
    /\ lk_pc' = [lk_pc EXCEPT ![e] = ExitPoint(lk_prog[e].steps, @)]
    /\ UNCHANGED <<lk_prog, lk_held, engineVars, dupVars, auxVars>>

\* leaving with Locked(d)
LkRelease(e) ==
    /\ AtStep(e)
    /\ Step(e).op = "rel"
    /\ lk_held' = [lk_held EXCEPT ![e] = @ \ {Step(e).dir}]
    /\ lk_pc' = [lk_pc EXCEPT ![e] = @ + 1]
    /\ UNCHANGED <<lk_prog, engineVars, dupVars, auxVars>>

\* the operation returns
LkReturn(e) ==
    /\ lk_pc[e] = Len(lk_prog[e].steps) + 1
    /\ lk_pc' = [lk_pc EXCEPT ![e] = 0]
    /\ lk_prog' = [lk_prog EXCEPT ![e] = NoProg]
    /\ UNCHANGED <<lk_held, engineVars, dupVars, auxVars>>

LockNext ==
    \E e \in Engines :
        \/ LkStart(e)
        \/ LkAcquire(e)
        \/ LkMutate(e)
        \/ LkExit(e)
        \/ LkRelease(e)
        \/ LkReturn(e)

(***************************************************************************)
(* The prefix rewriter on bytes.  A byte is a number, 0 the NUL byte; the  *)
(* placeholder is not empty and holds no NUL.                              *)
(***************************************************************************)
NUL == 0

Bytes == {NUL, 1, 2}

SeqsUpTo(S, n) == UNION {[1..k -> S] : k \in 0..n}

Placeholders == SeqsUpTo(Bytes \ {NUL}, MaxPlaceholder) \ {<<>>}

Nuls(n) == [i \in 1..n |-> NUL]

\* s.count(sub): occurrences that do not overlap, from the left
RECURSIVE CountFrom(_, _, _)
CountFrom(s, sub, i) ==
    IF i + Len(sub) - 1 > Len(s) THEN 0
    ELSE IF OccursAt(s, sub, i) THEN 1 + CountFrom(s, sub, i + Len(sub))
    ELSE CountFrom(s, sub, i + 1)

count(s, sub) == IF sub = <<>> THEN Len(s) + 1 ELSE CountFrom(s, sub, 1)

\* s.replace(a, b), a not empty
RECURSIVE ReplaceFrom(_, _, _, _)
ReplaceFrom(s, a, b, i) ==
    IF i > Len(s) THEN <<>>
    ELSE IF OccursAt(s, a, i) THEN b \o ReplaceFrom(s, a, b, i + Len(a))
    ELSE <<s[i]>> \o ReplaceFrom(s, a, b, i + 1)

replaceFirstOnly(s, a, b) ==
    LET i == FindFirst(s, a)
    IN  IF i = 0 THEN s
        ELSE SubSeq(s, 1, i - 1) \o b \o SubSeq(s, i + Len(a), Len(s))

replace(s, a, b) == ReplaceFrom(s, a, b, 1)

\* pat = re.escape(a) + b'([^\0]*?)\0' matched at index i: the index of the
\* NUL that ends the match, 0 when there is no match at i
MatchEnd(data, a, i) ==
    IF /\ OccursAt(data, a, i)
       /\ \E j \in (i + Len(a))..Len(data) : data[j] = NUL
    THEN CHOOSE j \in (i + Len(a))..Len(data) :
            /\ data[j] = NUL
            /\ \A k \in (i + Len(a))..(j - 1) : data[k] # NUL
    ELSE 0

\* padding = (len(a) - len(b)) * occurances
MatchPaddingOnce(a, b, occurances) == Len(a) - Len(b)

MatchPadding(a, b, occurances) == (Len(a) - Len(b)) * occurances

\* if padding < 0: raise PaddingError
PaddingNeverFails(padding) == FALSE

PaddingFails(padding) == padding < 0

\* replace(match) inside binary_replace
replace_match(group, a, b) ==
    LET occurances == count(group, a)
        padding == MatchPadding(a, b, occurances)
    IN  IF PaddingFails(padding) THEN [err |-> "PaddingError", res |-> <<>>]
        ELSE [err |-> "none", res |-> replace(group, a, b) \o Nuls(padding)]

\* pat.sub(replace, data) from index i on
RECURSIVE SubFrom(_, _, _, _)
SubFrom(data, a, b, i) ==
    IF i > Len(data) THEN [err |-> "none", res |-> <<>>]
    ELSE LET j == MatchEnd(data, a, i)
         IN  IF j = 0
             THEN LET rest == SubFrom(data, a, b, i + 1)
                  IN  [err |-> rest.err, res |-> <<data[i]>> \o rest.res]
             ELSE LET r == replace_match(SubSeq(data, i, j), a, b)
                  IN  IF r.err # "none" THEN r
                      ELSE LET rest == SubFrom(data, a, b, j + 1)
                           IN  [err |-> rest.err, res |-> r.res \o rest.res]

binary_replace(data, a, b) ==
    LET r == SubFrom(data, a, b, 1)
    IN  IF r.err = "none" /\ Len(r.res) # Len(data)
        THEN [err |-> "AssertionError", res |-> <<>>]
        ELSE r

\* update_prefix on the bytes of the file: [out, file]
update_prefix_data(file, mode, a, b) ==
    LET r == IF mode = "text"
             THEN [err |-> "none", res |-> replace(file.data, a, b)]
             ELSE binary_replace(file.data, a, b)
    IN  IF r.err # "none" THEN [out |-> r.err, file |-> file]
        ELSE IF r.res = file.data THEN [out |-> "same", file |-> file]
        ELSE [out |-> "written", file |-> [data |-> r.res, inode |-> "new"]]

BytesIdle ==
    /\ b_in = <<>>
    /\ b_file = <<>>
    /\ b_out = "none"
    /\ b_pc = "off"


BytesInit ==
    /\ b_in \in [mode : {"text", "binary"},
                 data : SeqsUpTo(Bytes, MaxData),
                 a : Placeholders,
                 b : SeqsUpTo(Bytes \ {NUL}, MaxPlaceholder + 1)]
    /\ b_file = [data |-> b_in.data, inode |-> "cache"]
    /\ b_out = "none"
    /\ b_pc = "input"

\* update_prefix(path, new_prefix, placeholder, mode) inside link
UpdatePrefix ==
    /\ b_pc = "input"
    /\ LET r == update_prefix_data(b_file, b_in.mode, b_in.a, b_in.b)
       IN  /\ b_out' = r.out
           /\ b_file' = r.file
    /\ b_pc' = "updated"
    /\ UNCHANGED <<b_in, engineVars, dupVars, lockVars, cacheVars, rmVars, probeVars, scriptVars>>

\* except PaddingError: sys.exit(...)
RewriteFatal ==
    /\ b_pc = "updated"
    /\ b_out \in {"PaddingError", "AssertionError"}
    /\ b_pc' = IF b_out = "PaddingError" THEN "exit" ELSE "crashed"
    /\ UNCHANGED <<b_in, b_file, b_out, engineVars, dupVars, lockVars, cacheVars, rmVars, probeVars, scriptVars>>

\* link goes on to the post-link script and create_meta
RewriteReturned ==
    /\ b_pc = "updated"
    /\ b_out \in {"same", "written"}
    /\ b_pc' = "meta"
    /\ UNCHANGED <<b_in, b_file, b_out, engineVars, dupVars, lockVars, cacheVars, rmVars, probeVars, scriptVars>>

BytesNext == UpdatePrefix \/ RewriteFatal \/ RewriteReturned

(***************************************************************************)
(* The package cache index: add_cached_package, package_cache, extract,    *)
(* rm_extracted, rm_fetched.  One packages directory; a package file name  *)
(* is a tail, its archive is CPkg(tail) (<pdir>/<tail>.tar.bz2) and its    *)
(* extracted directory CDir(tail) (<pdir>/<tail>).  A URL is the channel   *)
(* url_channel gives it and the file name after its last '/'.  A channel   *)
(* prefix is "" for defaults and the channel name (for <channel>::)        *)
(* otherwise.  An index is [pc, ft, disk]: package_cache_, fname_table and *)
(* the directory.                                                          *)
(***************************************************************************)
Tails == {"t1", "t2"}

TailOrder == <<"t1", "t2">>

Channels == {"defaults", "c"}

Urls == [schannel : Channels, fn : Tails]

UnknownUrl(fn) == [schannel |-> "unknown", fn |-> fn]

None == <<"None", "">>

CPkg(t) == <<"pkg", t>>

CDir(t) == <<"dir", t>>

NoUrl == [schannel |-> "", fn |-> ""]

NoKey == <<"", "">>

ChannelPrefix(url) ==
    IF url_channel(url) = "defaults" THEN "" ELSE url_channel(url)

CacheKey(url) == <<ChannelPrefix(url), url.fn>>

CacheKeys == {<<p, t>> : p \in {"", "c", "unknown"}, t \in Tails}

EmptyRec == [files |-> <<>>, dirs |-> <<>>, urls |-> <<>>]

AppendAlways(s, e) == Append(s, e)

AppendIfAbsent(s, e) == IF e \in Range(s) THEN s ELSE Append(s, e)

\* if not overwrite and xpkg in fname_table: return
AlreadyTabled(ft, xpkg, overwrite) == ~overwrite /\ xpkg \in DOMAIN ft

\* The body of add_cached_package after its call of package_cache().
add_cached_package_body(st, url, overwrite, urlstxt) ==
    LET t    == url.fn
        xpkg == IF t \in st.disk.archives THEN CPkg(t) ELSE None
        xdir == IF t \in st.disk.dirs THEN CDir(t) ELSE None
        fkey == CacheKey(url)
        rec  == IF fkey \in DOMAIN st.pc THEN st.pc[fkey] ELSE EmptyRec
        rec1 == [urls  |-> AppendIfAbsent(rec.urls, url),
                 files |-> AppendIfAbsent(rec.files, xpkg),
                 dirs  |-> IF xdir # None
                           THEN AppendIfAbsent(rec.dirs, xdir) ELSE rec.dirs]
    IN  IF AlreadyTabled(st.ft, CPkg(t), overwrite) THEN st
        ELSE IF xpkg = None /\ xdir = None THEN st
        ELSE [pc    |-> Put(st.pc, fkey, rec1),
              ft    |-> Put(st.ft, xpkg, ChannelPrefix(url)),
              disk  |-> IF urlstxt
                        THEN [st.disk EXCEPT !.urlstxt = Append(@, url)]
                        ELSE st.disk,
              scans |-> st.scans]

RECURSIVE package_cache(_)
RECURSIVE add_cached_package(_, _, _, _)

\* for url in ...: add_cached_package(pdir, url)
RECURSIVE AddEach(_, _, _)
AddEach(st, urls, i) ==
    IF i > Len(urls) THEN st
    ELSE AddEach(add_cached_package(st, urls[i], FALSE, FALSE), urls, i + 1)

\* package_cache_['@'] = None
Sentinel == <<"@", "">>

\* os.listdir(pdir): the archives and the extracted directories; the two
\* entries of one tail give the same 'unknown/' + fn package.
ListedTails(disk) ==
    SelectSeq(TailOrder, LAMBDA t : t \in disk.archives \cup disk.dirs)

UrlsInFileOrder(lines) == lines

\* for url in data.split()[::-1]
UrlsReversed(lines) == Reverse(lines)

\* The index is returned as it is when it is not empty (the sentinel makes
\* it so while the directory is scanned); st.scans counts the scans.
package_cache(st) ==
    IF DOMAIN st.pc # {} THEN st
    ELSE LET marked   == [st EXCEPT !.pc = Put(@, Sentinel, None),
                                    !.scans = @ + 1]
             fromUrls == AddEach(marked, UrlsReversed(st.disk.urlstxt), 1)
             listed   == ListedTails(st.disk)
             scanned  == AddEach(fromUrls,
                                 [i \in 1..Len(listed) |->
                                      UnknownUrl(listed[i])], 1)
         IN  [scanned EXCEPT !.pc = Remove(@, Sentinel)]

add_cached_package(st, url, overwrite, urlstxt) ==
    add_cached_package_body(package_cache(st), url, overwrite, urlstxt)

cache_read_url(st, dist) ==
    LET idx == package_cache(st).pc
    IN  IF dist \in DOMAIN idx /\ idx[dist].urls # <<>>
        THEN idx[dist].urls[1] ELSE NoUrl

is_fetched(st, dist) ==
    LET idx == package_cache(st).pc
    IN  IF dist \in DOMAIN idx /\ idx[dist].files # <<>>
        THEN idx[dist].files[1] ELSE None

is_extracted(st, dist) ==
    LET idx == package_cache(st).pc
    IN  IF dist \in DOMAIN idx /\ idx[dist].dirs # <<>>
        THEN idx[dist].dirs[1] ELSE None

\* rm_rf of an archive or of an extracted directory of the cache.
cache_rm_rf(disk, path) ==
    IF path[1] = "pkg" THEN [disk EXCEPT !.archives = @ \ {path[2]}]
    ELSE IF path[1] = "dir" THEN [disk EXCEPT !.dirs = @ \ {path[2]}]
    ELSE disk

Ended(st, err) == [st |-> st, err |-> err]

\* for fname in rec['files']: del fname_table[fname];
\*     with Locked(dirname(fname)): rm_rf(fname)
RECURSIVE RmFiles(_, _, _)
RmFiles(st, fnames, i) ==
    IF i > Len(fnames) THEN Ended(st, "none")
    ELSE IF fnames[i] \notin DOMAIN st.ft THEN Ended(st, "KeyError")
    ELSE LET st1 == [st EXCEPT !.ft = Remove(@, fnames[i])]
         IN  IF fnames[i] = None THEN Ended(st1, "TypeError")
             ELSE RmFiles([st1 EXCEPT !.disk = cache_rm_rf(@, fnames[i])],
                          fnames, i + 1)

\* for fname in rec['dirs']: with Locked(dirname(fname)): rm_rf(fname)
RECURSIVE RmDirs(_, _, _)
RmDirs(st, fnames, i) ==
    IF i > Len(fnames) THEN st
    ELSE RmDirs([st EXCEPT !.disk = cache_rm_rf(@, fnames[i])], fnames, i + 1)

rm_fetched(st0, dist) ==
    LET st == package_cache(st0)
    IN  IF dist \notin DOMAIN st.pc THEN Ended(st, "none")
        ELSE LET r == RmFiles(st, st.pc[dist].files, 1)
             IN  IF r.err # "none" THEN r
                 ELSE LET st2 == RmDirs(r.st, st.pc[dist].dirs, 1)
                      IN  Ended([st2 EXCEPT !.pc = Remove(@, dist)], "none")

rm_extracted(st0, dist) ==
    LET st == package_cache(st0)
    IN  IF dist \notin DOMAIN st.pc THEN st
        ELSE [RmDirs(st, st.pc[dist].dirs, 1) EXCEPT !.pc[dist].dirs = <<>>]

extract(st, dist) ==
    IF dist \notin DOMAIN st.pc THEN Ended(st, "KeyError")
    ELSE
    LET rec   == st.pc[dist]
        fname == rec.files[1]
        t     == fname[2]
        path  == CDir(t)
        st1   == [st EXCEPT !.disk = cache_rm_rf(@, path)]
        st2   == [st1 EXCEPT !.disk.dirs = @ \cup {t}]
        st3   == add_cached_package(st2, rec.urls[1], TRUE, FALSE)
    IN  IF fname = None THEN Ended(st, "TypeError")
        ELSE IF t \notin st.disk.archives THEN Ended(st1, "IOError")
        ELSE Ended([st3 EXCEPT !.pc[dist].dirs = AppendIfAbsent(@, path)],
                   "none")

(***************************************************************************)
(* The specification of the cache index: a directory with any archives,    *)
(* extracted directories and urls.txt lines, an empty index, and up to      *)
(* MaxCacheOps calls.  c_last is the call that ended last: its arguments,  *)
(* its error and whether the call before it had the same arguments.        *)
(***************************************************************************)
\* The lines of the initial urls.txt are different lines.
NoDuplicates(s) == \A i, j \in 1..Len(s) : s[i] = s[j] => i = j

CacheNow ==
    [pc |-> package_cache_, ft |-> fname_table, disk |-> c_disk,
     scans |-> c_scans]

NoCacheCall ==
    [op |-> "none", url |-> NoUrl, key |-> NoKey, overwrite |-> FALSE,
     urlstxt |-> FALSE]

CacheIdle ==
    /\ c_disk = [archives |-> {}, dirs |-> {}, urlstxt |-> <<>>]
    /\ package_cache_ = EmptyFn
    /\ fname_table = EmptyFn
    /\ c_last = [call |-> NoCacheCall, err |-> "none", repeat |-> FALSE]
    /\ c_ops = 0
    /\ c_scans = 0

CacheInit ==
    /\ c_disk \in [archives : SUBSET Tails, dirs : SUBSET Tails,
                   urlstxt : {l \in SeqsUpTo(Urls, MaxUrlLines) :
                                 NoDuplicates(l)}]
    /\ package_cache_ = EmptyFn
    /\ fname_table = EmptyFn
    /\ c_last = [call |-> NoCacheCall, err |-> "none", repeat |-> FALSE]
    /\ c_ops = 0
    /\ c_scans = 0

CacheEnds(call, st, err) ==
    /\ c_ops < MaxCacheOps
    /\ c_ops' = c_ops + 1
    /\ c_disk' = st.disk
    /\ c_scans' = st.scans
    /\ package_cache_' = st.pc
    /\ fname_table' = st.ft
    /\ c_last' = [call |-> call, err |-> err, repeat |-> call = c_last.call]
    /\ UNCHANGED <<engineVars, dupVars, lockVars, bytesVars, rmVars, probeVars,
                   scriptVars>>

CacheAdd ==
    \E url \in Urls, overwrite \in BOOLEAN, urlstxt \in BOOLEAN :
        /\ c_last.err = "none"
        /\ CacheEnds([NoCacheCall EXCEPT !.op = "add_cached_package",
                          !.url = url, !.overwrite = overwrite,
                          !.urlstxt = urlstxt],
                     add_cached_package(CacheNow, url, overwrite, urlstxt),
                     "none")

CacheLoad ==
    /\ c_last.err = "none"
    /\ CacheEnds([NoCacheCall EXCEPT !.op = "package_cache"],
                 package_cache(CacheNow), "none")

CacheExtract ==
    \E dist \in DOMAIN package_cache_ :
        LET r == extract(CacheNow, dist)
        IN  /\ c_last.err = "none"
            /\ CacheEnds([NoCacheCall EXCEPT !.op = "extract", !.key = dist],
                         r.st, r.err)

CacheRmExtracted ==
    \E dist \in DOMAIN package_cache(CacheNow).pc :
        /\ c_last.err = "none"
        /\ CacheEnds([NoCacheCall EXCEPT !.op = "rm_extracted",
                          !.key = dist],
                     rm_extracted(CacheNow, dist), "none")

CacheRmFetched ==
    \E dist \in DOMAIN package_cache(CacheNow).pc :
        LET r == rm_fetched(CacheNow, dist)
        IN  /\ c_last.err = "none"
            /\ CacheEnds([NoCacheCall EXCEPT !.op = "rm_fetched",
                              !.key = dist],
                         r.st, r.err)

CacheNext ==
    CacheAdd \/ CacheLoad \/ CacheExtract \/ CacheRmExtracted \/ CacheRmFetched

(***************************************************************************)
(* rm_rf.  The path is absent, a regular file, a live or dead symlink, or  *)
(* a directory of regular files.  The operating system may refuse a        *)
(* removal: r_in.refuse is the errno of os.unlink(path), r_in.entries[i]   *)
(* the errno of removing entry i ("ok" when it is removed).  shutil.rmtree *)
(* is given onerror=warn_failed_remove: it hands every failure to the      *)
(* handler, which logs it, and goes on.                                    *)
(***************************************************************************)
PathKinds == {"absent", "file", "symlink", "dead symlink", "dir"}

Errnos == {"EACCES", "EBUSY"}

max_retries == 5

RmInputs ==
    [kind : PathKinds \ {"dir"}, refuse : {"ok"} \cup Errnos,
     entries : {<<>>}]
    \cup [kind : {"dir"}, refuse : {"ok"},
          entries : SeqsUpTo({"ok"} \cup Errnos, MaxEntries)]

RmIdle ==
    /\ r_in = [kind |-> "absent", refuse |-> "ok", entries |-> <<>>]
    /\ r_node = [exists |-> FALSE, left |-> {}, next |-> 1, rounds |-> 0]
    /\ r_pc = "idle"
    /\ r_warn = <<>>

RmInit ==
    /\ r_in \in RmInputs
    /\ r_node = [exists |-> r_in.kind # "absent",
                 left |-> 1..Len(r_in.entries), next |-> 1, rounds |-> 0]
    /\ r_pc = "call"
    /\ r_warn = <<>>

\* warn_failed_remove(function, path, exc_info)
warn_failed_remove(errno) ==
    IF errno = "EACCES" THEN "permission denied"
    ELSE IF errno = "ENOTEMPTY" THEN "not empty"
    ELSE "unknown reason"

RmOthersUnchanged ==
    UNCHANGED <<r_in, engineVars, dupVars, lockVars, bytesVars, cacheVars,
                probeVars, scriptVars>>

\* if islink(path) or isfile(path): try: os.unlink(path)
\* except (OSError, IOError): log.warn(...)
RmUnlink ==
    /\ r_pc = "call"
    /\ r_in.kind \in {"file", "symlink", "dead symlink"}
    /\ IF r_in.refuse = "ok"
       THEN r_node' = [r_node EXCEPT !.exists = FALSE] /\ r_warn' = r_warn
       ELSE r_node' = r_node /\ r_warn' = Append(r_warn, "permission denied")
    /\ r_pc' = "returned"
    /\ RmOthersUnchanged

\* Neither branch: the path is not there.
RmNothing ==
    /\ r_pc = "call"
    /\ r_in.kind = "absent"
    /\ r_pc' = "returned"
    /\ UNCHANGED <<r_node, r_warn>>
    /\ RmOthersUnchanged

\* elif isdir(path): for i in range(max_retries): try: shutil.rmtree(...)
RmTreeStart ==
    /\ r_pc = "call"
    /\ r_in.kind = "dir"
    /\ max_retries > 0
    /\ r_pc' = "rmtree"
    /\ r_node' = [r_node EXCEPT !.rounds = @ + 1]
    /\ UNCHANGED r_warn
    /\ RmOthersUnchanged

\* shutil.rmtree removes the next entry, or gives the failure to onerror.
RmTreeEntry ==
    /\ r_pc = "rmtree"
    /\ r_node.next <= Len(r_in.entries)
    /\ LET i == r_node.next
       IN  IF r_in.entries[i] = "ok"
           THEN /\ r_node' = [r_node EXCEPT !.left = @ \ {i}, !.next = i + 1]
                /\ r_warn' = r_warn
           ELSE /\ r_node' = [r_node EXCEPT !.next = i + 1]
                /\ r_warn' = Append(r_warn,
                                    warn_failed_remove(r_in.entries[i]))
    /\ r_pc' = "rmtree"
    /\ RmOthersUnchanged

\* shutil.rmtree ends with os.rmdir(path), or gives ENOTEMPTY to onerror;
\* it returns, and rm_rf returns.
RmTreeRmdir ==
    /\ r_pc = "rmtree"
    /\ r_node.next > Len(r_in.entries)
    /\ IF r_node.left = {}
       THEN r_node' = [r_node EXCEPT !.exists = FALSE] /\ r_warn' = r_warn
       ELSE /\ r_node' = r_node
            /\ r_warn' = Append(r_warn, warn_failed_remove("ENOTEMPTY"))
    /\ r_pc' = "returned"
    /\ RmOthersUnchanged

RmNext == RmUnlink \/ RmNothing \/ RmTreeStart \/ RmTreeEntry \/ RmTreeRmdir

(***************************************************************************)
(* try_hard_link(pkgs_dir, prefix, dist).  The prefix is /env, the probe   *)
(* file /env/.tmp-<dist>, /env/lib/o a file of somebody else.  t_in says   *)
(* what was there before the call and what the operating system allows:   *)
(* whether info/index.json is in the cache, whether os.link works between  *)
(* cache and prefix, whether os.makedirs and os.unlink are permitted.      *)
(***************************************************************************)
ProbeDst == join(PREFIX, <<".tmp">>)

ProbeOther == join(PREFIX, <<"o">>)

ProbeInputs ==
    [dirs : {{}, {PREFIX}}, files : SUBSET {ProbeDst, ProbeOther},
     src : BOOLEAN, linkable : BOOLEAN, mkdir : BOOLEAN, unlink : BOOLEAN]

NoProbeInput ==
    [dirs |-> {}, files |-> {}, src |-> FALSE, linkable |-> FALSE,
     mkdir |-> FALSE, unlink |-> FALSE]

ProbeIdle ==
    /\ t_in = NoProbeInput
    /\ t_dirs = {}
    /\ t_files = {}
    /\ t_pc = "off"
    /\ t_res = [ret |-> "none", linked |-> FALSE]

ProbeInit ==
    /\ t_in \in {i \in ProbeInputs : i.files # {} => PREFIX \in i.dirs}
    /\ t_dirs = t_in.dirs
    /\ t_files = t_in.files
    /\ t_pc = "call"
    /\ t_res = [ret |-> "none", linked |-> FALSE]

ProbeOthersUnchanged ==
    UNCHANGED <<t_in, engineVars, dupVars, lockVars, bytesVars, cacheVars,
                rmVars, scriptVars>>

\* assert isfile(src), src; assert not isfile(dst), dst
ProbeAssert ==
    /\ t_pc = "call"
    /\ t_pc' = IF t_in.src /\ ProbeDst \notin t_files
               THEN "makedirs" ELSE "AssertionError"
    /\ UNCHANGED <<t_dirs, t_files, t_res>>
    /\ ProbeOthersUnchanged

\* if not isdir(prefix): os.makedirs(prefix)
ProbeMakedirs ==
    /\ t_pc = "makedirs"
    /\ IF PREFIX \in t_dirs
       THEN t_dirs' = t_dirs /\ t_pc' = "link" /\ t_res' = t_res
       ELSE IF t_in.mkdir
       THEN t_dirs' = t_dirs \cup {PREFIX} /\ t_pc' = "link" /\ t_res' = t_res
       ELSE /\ t_dirs' = t_dirs
            /\ t_pc' = "rm_rf"
            /\ t_res' = [t_res EXCEPT !.ret = "False"]
    /\ UNCHANGED t_files
    /\ ProbeOthersUnchanged

\* _link(src, dst, LINK_HARD); return True / except OSError: return False
ProbeLink ==
    /\ t_pc = "link"
    /\ IF t_in.linkable /\ ProbeDst \notin t_files
       THEN /\ t_files' = t_files \cup {ProbeDst}
            /\ t_res' = [ret |-> "True", linked |-> TRUE]
       ELSE /\ t_files' = t_files
            /\ t_res' = [t_res EXCEPT !.ret = "False"]
    /\ t_pc' = "rm_rf"
    /\ UNCHANGED t_dirs
    /\ ProbeOthersUnchanged

\* finally: rm_rf(dst)
ProbeRmRf ==
    /\ t_pc = "rm_rf"
    /\ t_files' = IF t_in.unlink THEN t_files \ {ProbeDst} ELSE t_files
    /\ t_pc' = "rm_empty_dir"
    /\ UNCHANGED <<t_dirs, t_res>>
    /\ ProbeOthersUnchanged

\* os.rmdir(path); except OSError: pass
ProbeRmdir(ds, fl) == IF fl = {} THEN ds \ {PREFIX} ELSE ds

\* finally: rm_empty_dir(prefix); the function returns
ProbeRmEmptyDir ==
    /\ t_pc = "rm_empty_dir"
    /\ t_dirs' = ProbeRmdir(t_dirs, t_files)
    /\ t_pc' = "returned"
    /\ UNCHANGED <<t_files, t_res>>
    /\ ProbeOthersUnchanged

ProbeNext ==
    ProbeAssert \/ ProbeMakedirs \/ ProbeLink \/ ProbeRmRf \/ ProbeRmEmptyDir

(***************************************************************************)
(* run_script(prefix, dist, action, env_prefix).  An entry of an           *)
(* environment is Unset or [by, val]: by says who put the value there,     *)
(* the user who started the process or the engine.                         *)
(***************************************************************************)
MaxScripts == 2

EnvNames ==
    {"ROOT_PREFIX", "PREFIX", "PKG_NAME", "PKG_VERSION", "PKG_BUILDNUM",
     "SOURCE_DIR"}

Unset == [by |-> "nobody", val |-> <<>>]

ByUser == [by |-> "user", val |-> <<"u">>]

ByEngine(v) == [by |-> "engine", val |-> v]

ScriptActions == {"pre-link", "post-link", "pre-unlink"}

ScriptPrefixes == {<<"env">>, <<"pkgs", "f">>}

ScriptDists == {D_f10, D_g10}

NoEnvPrefix == <<"None">>

sys_prefix == <<"root">>

\* s.rsplit(sep, 1)[-1]
RSplitOnceLast(str, sep) ==
    LET i == FindLast(str, sep)
    IN  IF i = 0 THEN str ELSE SubSeq(str, i + Len(sep), Len(str))

\* env_prefix or prefix
EnvPrefixOr(env_prefix, prefix) ==
    IF env_prefix = NoEnvPrefix THEN prefix ELSE env_prefix

\* lines 450-455: the assignments to env
ScriptEnv(env, prefix, dist, action, env_prefix) ==
    [n \in EnvNames |->
        CASE n = "ROOT_PREFIX" -> ByEngine(sys_prefix)
          [] n = "PREFIX" -> ByEngine(EnvPrefixOr(env_prefix, prefix))
          [] n = "PKG_NAME" -> ByEngine(RSplitTwiceHead(dist, Dash))
          [] n = "PKG_VERSION" ->
                ByEngine(RSplitOnceLast(RSplitOnceHead(dist, Dash), Dash))
          [] n = "PKG_BUILDNUM" -> ByEngine(RSplitOnceLast(dist, Dash))
          [] n = "SOURCE_DIR" ->
                IF action = "pre-link" THEN ByEngine(prefix) ELSE env[n]]

NoScriptCall ==
    [prefix |-> <<>>, dist |-> <<>>, action |-> "none",
     env_prefix |-> NoEnvPrefix, ran |-> FALSE]

NoEnv == [n \in EnvNames |-> Unset]

ScriptIdle ==
    /\ s_environ = NoEnv
    /\ s_given = NoEnv
    /\ s_call = NoScriptCall
    /\ s_n = 0

ScriptInit ==
    /\ s_environ \in {e \in [EnvNames -> {Unset, ByUser}] :
                        \A n \in EnvNames \ {"SOURCE_DIR", "PREFIX"} : e[n] = Unset}
    /\ s_given = NoEnv
    /\ s_call = NoScriptCall
    /\ s_n = 0

ScriptOthersUnchanged ==
    UNCHANGED <<engineVars, dupVars, lockVars, bytesVars, cacheVars, rmVars,
                probeVars>>

\* if not isfile(path): return True
ScriptAbsent(prefix, dist, action, env_prefix) ==
    /\ s_n < MaxScripts
    /\ s_n' = s_n + 1
    /\ s_call' = [prefix |-> prefix, dist |-> dist, action |-> action,
                  env_prefix |-> env_prefix, ran |-> FALSE]
    /\ UNCHANGED <<s_environ, s_given>>
    /\ ScriptOthersUnchanged

\* the script is there: env = os.environ is the mapping itself, not a copy,
\* so the assignments land in os.environ; env is handed to
\* subprocess.check_call(args, env=env)
ScriptRun(prefix, dist, action, env_prefix) ==
    /\ s_n < MaxScripts
    /\ s_n' = s_n + 1
    /\ s_call' = [prefix |-> prefix, dist |-> dist, action |-> action,
                  env_prefix |-> env_prefix, ran |-> TRUE]
    /\ LET env == ScriptEnv(s_environ, prefix, dist, action, env_prefix)
       IN  /\ s_environ' = env
           /\ s_given' = env
    /\ ScriptOthersUnchanged

ScriptNext ==
    \E prefix \in ScriptPrefixes, dist \in ScriptDists,
       action \in ScriptActions, env_prefix \in {NoEnvPrefix, <<"env">>} :
        \/ ScriptAbsent(prefix, dist, action, env_prefix)
        \/ ScriptRun(prefix, dist, action, env_prefix)

DupIdle ==
    /\ dist_metas = {}
    /\ keep_dists = {}
    /\ dup_res = <<>>
    /\ dup_again = <<>>
    /\ dup_pc = "off"

Init == EngineInit /\ DupIdle /\ LockIdle /\ (BytesIdle /\ CacheIdle /\ RmIdle /\ ProbeIdle /\ ScriptIdle)

Next == EngineNext

Spec == Init /\ [][Next]_vars

(***************************************************************************)
(* duplicates_to_remove on its own.                                        *)
(***************************************************************************)
DupInit ==
    /\ dist_metas \in {S \in SUBSET DupUniverse : Cardinality(S) <= MaxDists}
    /\ keep_dists \in {S \in SUBSET DupUniverse : Cardinality(S) <= MaxKeep}
    /\ dup_res = <<>>
    /\ dup_again = <<>>
    /\ dup_pc = "input"

\* The call duplicates_to_remove(dist_metas, keep_dists).
DupCall ==
    /\ dup_pc = "input"
    /\ dup_res' = duplicates_to_remove(dist_metas, keep_dists)
    /\ dup_pc' = "returned"
    /\ UNCHANGED <<dist_metas, keep_dists, dup_again, engineVars, lockVars, auxVars>>

\* The caller removes the returned dists and calls again with the same keep.
DupReapply ==
    /\ dup_pc = "returned"
    /\ dup_again' = duplicates_to_remove(dist_metas \ Range(dup_res), keep_dists)
    /\ dup_pc' = "reapplied"
    /\ UNCHANGED <<dist_metas, keep_dists, dup_res, engineVars, lockVars, auxVars>>

DupNext == DupCall \/ DupReapply

InitDup == EngineIdle /\ DupInit /\ LockIdle /\ (BytesIdle /\ CacheIdle /\ RmIdle /\ ProbeIdle /\ ScriptIdle)

SpecDup == InitDup /\ [][DupNext]_vars

InitLock == EngineIdle /\ DupIdle /\ LockIdle /\ (BytesIdle /\ CacheIdle /\ RmIdle /\ ProbeIdle /\ ScriptIdle)

SpecLock == InitLock /\ [][LockNext]_vars

InitBytes == EngineIdle /\ DupIdle /\ LockIdle /\ BytesInit /\ CacheIdle /\ RmIdle /\ ProbeIdle /\ ScriptIdle

SpecBytes == InitBytes /\ [][BytesNext]_vars

InitCache == EngineIdle /\ DupIdle /\ LockIdle /\ BytesIdle /\ CacheInit /\ RmIdle /\ ProbeIdle /\ ScriptIdle

SpecCache == InitCache /\ [][CacheNext]_vars

InitRm == EngineIdle /\ DupIdle /\ LockIdle /\ BytesIdle /\ CacheIdle /\ RmInit /\ ProbeIdle /\ ScriptIdle

SpecRm == InitRm /\ [][RmNext]_vars

InitRelinked == RelinkedInit /\ DupIdle /\ LockIdle /\ (BytesIdle /\ CacheIdle /\ RmIdle /\ ProbeIdle /\ ScriptIdle)

SpecRelinked == InitRelinked /\ [][EngineNext]_vars

InitProbe == EngineIdle /\ DupIdle /\ LockIdle /\ BytesIdle /\ CacheIdle /\ RmIdle /\ ProbeInit /\ ScriptIdle

SpecProbe == InitProbe /\ [][ProbeNext]_vars

InitScript == EngineIdle /\ DupIdle /\ LockIdle /\ BytesIdle /\ CacheIdle /\ RmIdle /\ ProbeIdle /\ ScriptInit

SpecScript == InitScript /\ [][ScriptNext]_vars

(***************************************************************************)
(* Properties of link and unlink (specification Spec).                     *)
(***************************************************************************)
\* link(prefix, d) returned and the unlink(prefix, d) that followed has ended.
LinkThenUnlink ==
    /\ pc = "exit"
    /\ last.kind = "link"
    /\ cur.kind = "unlink" /\ cur.dist = last.dist

\* Nothing of the completed link is left: its files, the directories they
\* left empty, the json record, the key in linked(prefix).
LinkUndone ==
    /\ cur.status = "done"
    /\ last.installed \cap DOMAIN files = {}
    /\ \A d \in dirs :
          (\/ d \in {PREFIX, MetaDir}
           \/ \E q \in last.installed : d \in makedirs({}, dirname(q)))
          => ~DirEmpty(dirs, files, metaFiles, sidecars, d)
    /\ ~HasTail(metaFiles, _dist2filename(cur.dist))
    /\ cur.dist \notin linked(linked_data_, metaFiles)

\* C1 as stated: for any extracted dist, link followed by unlink removes every
\* file link installed and every directory left empty, leaves no
\* conda-meta/<tail>.json and leaves dist out of linked(prefix).
C1_LinkUnlinkAnyDist == LinkThenUnlink => LinkUndone

\* C1 amended: the same, for a dist whose package name is not _cache and a
\* link that found no conda-meta/<tail>.files sidecar (so that the record
\* lists the manifest).
C1_LinkUnlinkRestores ==
    (/\ LinkThenUnlink
     /\ name_dist(cur.dist) # CacheName
     /\ ~last.hadSidecar) => LinkUndone

\* A link that installed files into a prefix it had to create, then the unlink.
C1_Witness ==
    /\ LinkThenUnlink
    /\ name_dist(cur.dist) # CacheName
    /\ ~last.hadSidecar
    /\ Cardinality(last.installed) >= 2
    /\ cur.status = "done"
    /\ PREFIX \notin dirs

\* link(prefix, d, linktype) returned and the same call, made again, has
\* completed.
LinkTwice ==
    /\ pc = "exit"
    /\ last.kind = "link"
    /\ cur.kind = "link" /\ cur.status = "done"
    /\ cur.dist = last.dist /\ cur.lt = last.lt

\* The prefix as the second call leaves it is the prefix as the first left it.
SameAsOnce == Observed(files, metaFiles, linked_data_) = last.snap

\* C2 as stated: link twice in a row leaves the files, their contents, the
\* json record (with its files list) and linked(prefix) as link once does.
C2_LinkTwiceSameAsOnce == LinkTwice => SameAsOnce

\* C2 amended: the same, when the first link found no
\* conda-meta/<tail>.files sidecar.
C2_LinkIdempotentNoSidecar ==
    (LinkTwice /\ ~last.hadSidecar) => SameAsOnce

\* Two links of a package with a rewritten file over files of another package.
C2_Witness ==
    /\ LinkTwice
    /\ ~last.hadSidecar
    /\ last.installed # {}
    /\ HasTail(metaFiles, _dist2filename(cur.dist))
    /\ \E q \in DOMAIN files : files[q].patched
    /\ \E q \in DOMAIN files : files[q].orig = <<"other">>

\* A link that did not complete: sys.exit, an exception, or the process killed.
LinkAborted ==
    /\ cur.kind = "link"
    /\ cur.status \in {"aborted", "crashed", "killed"}

C4_OnlyFatalErrorsAbort ==
    (pc = "exit" /\ cur.kind = "link") => cur.status \in {"done", "aborted"}

\* C7: link of a dist named _cache never rewrites, runs post-link or creates
\* metadata: conda-meta and linked(prefix) stay as they were, no file is
\* rewritten.
C7_CacheDistNoMetadata ==
    (cur.kind = "link" /\ name_dist(cur.dist) = CacheName) =>
        /\ pc \notin {"rewrite", "postlink", "meta", "metadisk"}
        /\ metaFiles = cur.start.metaFiles
        /\ sidecars = cur.start.sidecars
        /\ (MetaDir \in dirs) = cur.start.metaDir
        /\ cur.status # "killed" =>
              linked(linked_data_, metaFiles) = cur.start.linked
        /\ cachePatched = cur.start.patched
        /\ \A q \in cur.installed :
              (q \in DOMAIN files /\ files[q].patched) =>
                  \E f \in cur.start.patched : q = join(PREFIX, f)

\* A completed link of _cache that installed files of a package with a
\* has_prefix entry and a waiting .files sidecar.
C7_Witness ==
    /\ pc = "exit"
    /\ cur.kind = "link" /\ cur.status = "done"
    /\ name_dist(cur.dist) = CacheName
    /\ cur.installed # {}
    /\ \E e \in pkg.has_prefix : join(PREFIX, e.f) \in cur.installed

\* C8: the mode link uses for a manifest file is COPY when the file is in
\* has_prefix, in no_link or its source is a symlink, the caller's linktype
\* otherwise; a has_prefix file or a symlink source is never hard- or
\* soft-linked.
C8_LinkModePerFile ==
    (cur.kind = "link") =>
        \A u \in cur.used :
            LET special == \/ \E e \in pkg.has_prefix : e.f = u.f
                           \/ u.f \in pkg.no_link
                           \/ (u.f \in pkg.symlinks /\ u.f \notin pkg.missing)
                dst == join(PREFIX, u.f)
            IN  /\ u.lt = IF special THEN LINK_COPY ELSE cur.lt
                /\ (pc = "files" /\ special /\ dst \in cur.installed) =>
                      /\ files[dst].kind # "soft"
                      /\ files[dst].ino # "cache"

\* A hard-linking link that copied a symlink source and hard-linked a plain file.
C8_Witness ==
    /\ cur.kind = "link" /\ cur.lt = LINK_HARD
    /\ \E u \in cur.used : u.f \in pkg.symlinks /\ u.lt = LINK_COPY
                            /\ ~(\E e \in pkg.has_prefix : e.f = u.f)
    /\ \E u \in cur.used : u.lt = LINK_HARD

(***************************************************************************)
(* Properties of the locks (specification SpecLock).                       *)
(***************************************************************************)
\* C5 as stated: whenever an engine instance is about to change something
\* under a prefix or under a package cache directory, it holds the lock of
\* that directory.
C5_MutationsUnderLock ==
    \A e \in Engines :
        (AtStep(e) /\ Step(e).op = "mut") => Step(e).dir \in lk_held[e]

\* The instance waits for a lock another instance holds.
Blocked(e) == AtStep(e) /\ Step(e).op = "acq" /\ ~LockFree(Step(e).dir)

\* C6: a prefix lock is requested only with no lock held, a cache directory
\* lock only with no cache directory lock held (prefix outside, pkgs_dir
\* inside); and whenever an instance waits for a lock, some instance that is
\* inside an operation does not wait: no deadlock.
C6_NoDeadlock ==
    /\ \A e \in Engines :
          (AtStep(e) /\ Step(e).op = "acq") =>
              /\ lk_held[e] \cap LockPkgsDirs = {}
              /\ Step(e).dir \in LockPrefixes => lk_held[e] = {}
    /\ (\E e \in Engines : Blocked(e)) =>
          \E e \in Engines : AtStep(e) /\ ~Blocked(e)

\* A link holding its prefix waits for the cache directory that another
\* link, on another prefix, holds.
C6_Witness ==
    \E e, o \in Engines :
        /\ Blocked(e)
        /\ lk_prog[e].name = "link" /\ lk_prog[o].name = "link"
        /\ lk_held[e] # {}
        /\ Step(e).dir \in lk_held[o]
        /\ Cardinality(lk_held[o]) = 2

(***************************************************************************)
(* Properties of duplicates_to_remove (specification SpecDup).             *)
(***************************************************************************)
\* dist_metas without the returned distributions
Remaining == dist_metas \ Range(dup_res)

DupReturned == dup_pc \in {"returned", "reapplied"}

C10_ReturnsOnlyUnkeptMembers ==
    DupReturned =>
        /\ Range(dup_res) \cap keep_dists = {}
        /\ Range(dup_res) \subseteq dist_metas

\* A group with a kept distribution lost another one.
C10_Witness ==
    /\ dup_pc = "returned"
    /\ \E r \in Range(dup_res), k \in keep_dists \cap dist_metas :
          name_dist(r) = name_dist(k)

\* The distributions of dist_metas with the package name n.
NameGroup(n) == {d \in dist_metas : name_dist(d) = n}

\* The greatest distribution of a group in the order of the strings.
Greatest(G) == CHOOSE m \in G : \A y \in G : y = m \/ StrLess(y, m)

\* C21: for every package name in dist_metas at least one distribution of
\* the name is not returned; of a group of two or more with no member in
\* keep_dists only the lexicographically greatest is not returned; of a group
\* with a member in keep_dists exactly the members outside keep_dists are
\* returned.
C21_GroupsKeepOne ==
    dup_pc = "returned" =>
        \A n \in {name_dist(d) : d \in dist_metas} :
            LET G == NameGroup(n)
                R == G \cap Range(dup_res)
            IN  /\ G \ R # {}
                /\ (Cardinality(G) >= 2 /\ G \cap keep_dists = {}) =>
                       G \ R = {Greatest(G)}
                /\ G \cap keep_dists # {} => R = G \ keep_dists

\* A group of three with no kept member lost its two smaller distributions.
C21_Witness ==
    /\ dup_pc = "returned"
    /\ dist_metas = {D_f10, D_f20, D_f21}
    /\ keep_dists \cap dist_metas = {}
    /\ Remaining = {D_f21}

(***************************************************************************)
(* Properties of the prefix rewriter (specification SpecBytes).            *)
(***************************************************************************)
\* Whether the i-th byte starts a NUL-terminated run matching the
\* placeholder that no earlier run reaches.
RECURSIVE IsRunStart(_, _, _)
IsRunStart(data, a, i) ==
    /\ MatchEnd(data, a, i) # 0
    /\ \A h \in 1..(i - 1) : IsRunStart(data, a, h) => MatchEnd(data, a, h) < i

InRun(data, a, p) ==
    \E i \in 1..p : IsRunStart(data, a, i) /\ p <= MatchEnd(data, a, i)

BinaryCall == b_pc # "input" /\ b_pc # "off" /\ b_in.mode = "binary"

\* C11: with len(B) <= len(A) the binary rewrite keeps the length of the
\* data; each NUL-terminated run starting at A holds, in the same place, the
\* run with its occurrences of A replaced by B (occurrences counted from the
\* left without overlap) followed by (len(A) - len(B)) * occurrences NUL
\* bytes; every byte outside the runs is unchanged.
C11_BinaryReplaceKeepsLength ==
    (BinaryCall /\ Len(b_in.b) <= Len(b_in.a)) =>
        LET data == b_in.data
            res == b_file.data
        IN  /\ b_out \in {"same", "written"}
            /\ Len(res) = Len(data)
            /\ \A i \in 1..Len(data) :
                  IsRunStart(data, b_in.a, i) =>
                      LET j == MatchEnd(data, b_in.a, i)
                          run == SubSeq(data, i, j)
                      IN  SubSeq(res, i, j) =
                              replace(run, b_in.a, b_in.b) \o
                              Nuls((Len(b_in.a) - Len(b_in.b)) * count(run, b_in.a))
            /\ \A p \in 1..Len(data) :
                  ~InRun(data, b_in.a, p) => res[p] = data[p]

\* A run with two occurrences of the placeholder, replaced by a shorter
\* prefix, in a file with a byte after the run.
C11_Witness ==
    /\ BinaryCall
    /\ b_out = "written"
    /\ Len(b_in.b) < Len(b_in.a)
    /\ ~InRun(b_in.data, b_in.a, Len(b_in.data))
    /\ \E i \in 1..Len(b_in.data) :
          /\ IsRunStart(b_in.data, b_in.a, i)
          /\ count(SubSeq(b_in.data, i, MatchEnd(b_in.data, b_in.a, i)), b_in.a) >= 2

\* C12: when the new prefix is longer than the placeholder and the file has
\* a NUL-terminated run matching the placeholder, binary update_prefix ends
\* with PaddingError, the file is neither removed nor rewritten, and link
\* exits without reaching create_meta.
C12_PaddingErrorLeavesFile ==
    (/\ BinaryCall
     /\ Len(b_in.b) > Len(b_in.a)
     /\ \E i \in 1..Len(b_in.data) : MatchEnd(b_in.data, b_in.a, i) # 0) =>
        /\ b_out = "PaddingError"
        /\ b_file = [data |-> b_in.data, inode |-> "cache"]
        /\ b_pc \in {"updated", "exit"}

\* link has exited on the PaddingError of a file with bytes before and after
\* the run.
C12_Witness ==
    /\ BinaryCall
    /\ b_pc = "exit"
    /\ Len(b_in.b) > Len(b_in.a)
    /\ MatchEnd(b_in.data, b_in.a, 2) = 3
    /\ Len(b_in.data) = 4

TextCall == b_pc # "input" /\ b_pc # "off" /\ b_in.mode = "text"

DiskPaths(disk) ==
    {CPkg(t) : t \in disk.archives} \cup {CDir(t) : t \in disk.dirs}

RecOrEmpty(idx, k) == IF k \in DOMAIN idx THEN idx[k] ELSE EmptyRec

\* The entries that a step puts into the files and dirs lists of the index.
Inserted ==
    UNION {(Range(package_cache_'[k].files)
                \ Range(RecOrEmpty(package_cache_, k).files))
           \cup (Range(package_cache_'[k].dirs)
                \ Range(RecOrEmpty(package_cache_, k).dirs)) :
           k \in DOMAIN package_cache_'}

\* Every archive path in a files list has an entry in fname_table.
ArchivesTabled ==
    \A k \in DOMAIN package_cache_ :
        \A f \in Range(package_cache_[k].files) :
            f # None => f \in DOMAIN fname_table

\* C14 as stated: after any sequence of add_cached_package, extract,
\* rm_extracted and rm_fetched calls, every entry of a record's files and dirs
\* lists is a path that existed in the cache directory when it was inserted
\* (never a null path), and every archive path in files has an entry in
\* fname_table.
C14_IndexedPathsExisted ==
    /\ []ArchivesTabled
    /\ [][Inserted \subseteq DiskPaths(c_disk')]_vars

CacheBefore == package_cache(CacheNow)

CacheAfter ==
    [pc |-> package_cache_', ft |-> fname_table', disk |-> c_disk',
     scans |-> c_scans']

\* C15 as stated: for every dist that has a record, rm_fetched(dist) ends
\* without error, the record is gone (is_fetched and is_extracted give
\* nothing), fname_table has no key for any of its archives, and the records
\* and the fname_table entries of all other dists are as before.
C15_RmFetchedRemovesRecord ==
    [][(c_last'.call.op = "rm_fetched"
            /\ c_last'.call.key \in DOMAIN CacheBefore.pc)
       => LET dist == c_last'.call.key
              rec  == CacheBefore.pc[dist]
          IN  /\ c_last'.err = "none"
              /\ dist \notin DOMAIN package_cache_'
              /\ is_fetched(CacheAfter, dist) = None
              /\ is_extracted(CacheAfter, dist) = None
              /\ Range(rec.files) \cap DOMAIN fname_table' = {}
              /\ \A k \in DOMAIN CacheBefore.pc \ {dist} :
                     /\ k \in DOMAIN package_cache_'
                     /\ package_cache_'[k] = CacheBefore.pc[k]
              /\ \A f \in DOMAIN CacheBefore.ft \ Range(rec.files) :
                     /\ f \in DOMAIN fname_table'
                     /\ fname_table'[f] = CacheBefore.ft[f]]_vars

\* The index was just built from the directory by a first package_cache().
Bootstrapped == c_last.call.op = "package_cache" /\ c_ops = 1

LinesNaming(t) ==
    {i \in 1..Len(c_disk.urlstxt) : c_disk.urlstxt[i].fn = t}

\* Two different lines of urls.txt name the archive of t, which is there.
TiedLines(t) ==
    /\ t \in c_disk.archives
    /\ \E i, j \in LinesNaming(t) : c_disk.urlstxt[i] # c_disk.urlstxt[j]

EarliestLine(t) ==
    c_disk.urlstxt[CHOOSE i \in LinesNaming(t) :
                       \A j \in LinesNaming(t) : i <= j]

LatestLine(t) ==
    c_disk.urlstxt[CHOOSE i \in LinesNaming(t) :
                       \A j \in LinesNaming(t) : i >= j]

\* The archive of t is indexed from the line url.
IndexedFrom(t, url) ==
    /\ CPkg(t) \in DOMAIN fname_table
    /\ fname_table[CPkg(t)] = ChannelPrefix(url)
    /\ CacheKey(url) \in DOMAIN package_cache_
    /\ CPkg(t) \in Range(package_cache_[CacheKey(url)].files)
    /\ cache_read_url(CacheNow, CacheKey(url)) = url

\* C16 as stated: when the index is built from urls.txt and two lines name
\* the same archive, the earlier line wins: the key and channel prefix of the
\* archive in fname_table and the URL read_url returns come from it.
C16_EarlierLineWins ==
    Bootstrapped =>
        \A t \in Tails : TiedLines(t) => IndexedFrom(t, EarliestLine(t))

\* C16, amended: the later line wins.  The archive is indexed from the last
\* line of urls.txt that names it, and no other record lists the archive.
C16_LaterLineWins ==
    Bootstrapped =>
        \A t \in Tails :
            TiedLines(t) =>
                /\ IndexedFrom(t, LatestLine(t))
                /\ \A k \in DOMAIN package_cache_ \ {CacheKey(LatestLine(t))} :
                       CPkg(t) \notin Range(package_cache_[k].files)

C16_Witness ==
    /\ Bootstrapped
    /\ \E t \in Tails :
           /\ TiedLines(t)
           /\ CacheKey(EarliestLine(t)) # CacheKey(LatestLine(t))
           /\ IndexedFrom(t, LatestLine(t))

NoRecordRepeats ==
    \A k \in DOMAIN package_cache_ :
        /\ NoDuplicates(package_cache_[k].urls)
        /\ NoDuplicates(package_cache_[k].files)
        /\ NoDuplicates(package_cache_[k].dirs)

\* The step is an add_cached_package call with the arguments of the
\* add_cached_package call that ended just before it.
AddRepeated ==
    /\ c_last'.call.op = "add_cached_package"
    /\ c_last'.call = c_last.call

\* C17: add_cached_package called a second time with the same arguments,
\* with or without overwrite, leaves package_cache_ and fname_table as the
\* first call left them; and no record's urls, files or dirs list ever holds
\* the same element twice.
C17_AddIdempotent ==
    /\ []NoRecordRepeats
    /\ [][AddRepeated =>
              /\ package_cache_' = package_cache_
              /\ fname_table' = fname_table]_vars

C17_Witness ==
    /\ c_last.call.op = "add_cached_package"
    /\ c_last.repeat
    /\ c_last.call.overwrite
    /\ CacheKey(c_last.call.url) \in DOMAIN package_cache_
    /\ CPkg(c_last.call.url.fn)
           \in Range(package_cache_[CacheKey(c_last.call.url)].files)
    /\ CDir(c_last.call.url.fn)
           \in Range(package_cache_[CacheKey(c_last.call.url)].dirs)

(***************************************************************************)
(* Properties of rm_rf (specification SpecRm).                             *)
(***************************************************************************)
\* C18 as stated: whenever rm_rf(path) returns without raising, for a regular
\* file, a live or dead symlink or a directory subtree, the path no longer
\* exists.
C18_ReturnedMeansGone == r_pc = "returned" => ~r_node.exists

(***************************************************************************)
(* Properties of the engine, continued (specification Spec).               *)
(***************************************************************************)
\* C20 as stated: link never changes the content of a file of the extracted
\* tree in the package cache, with any default linktype: no cache file is
\* ever rewritten.
C20_CacheNeverRewritten == cachePatched = {}

\* The dist keys a fresh reading of conda-meta gives.
LinkedOnDisk == {LoadedFromDisk(m).key : m \in metaFiles}

\* C19 as stated: after any sequence of completed link and unlink operations
\* of one engine (dists of one tail under different channels included), the
\* in-memory store agrees with the disk: a dist key is in linked(prefix) if
\* and only if conda-meta/<tail>.json exists for that dist.
C19_StoreAgreesWithDisk ==
    (pc = "exit" /\ cur.status = "done") =>
        linked(linked_data_, metaFiles) = LinkedOnDisk

\* C22 as stated: the cache directories are scanned on the first call of
\* package_cache() only, never again (not by the re-entrant calls during the
\* scan, not after a scan that found no package), and the sentinel key is not
\* in the index once a call has returned.
C22_ScannedOnce ==
    /\ c_scans <= 1
    /\ Sentinel \notin DOMAIN package_cache_

\* extracted(): the first directory of every record that has one.
extracted(idx) == {idx[k].dirs[1] : k \in {j \in DOMAIN idx : idx[j].dirs # <<>>}}

\* The step is rm_extracted(dist) for a dist that has a record.
RmExtractedStep ==
    /\ c_last'.call.op = "rm_extracted"
    /\ c_last'.call.key \in DOMAIN CacheBefore.pc

\* The step is extract(dist) right after rm_extracted(dist).
ExtractAfterRmStep ==
    /\ c_last.call.op = "rm_extracted"
    /\ c_last'.call.op = "extract"
    /\ c_last'.call.key = c_last.call.key

Occurrences(s, e) == Cardinality({i \in 1..Len(s) : s[i] = e})

\* After rm_extracted(dist): nothing extracted for dist; key, files, urls,
\* is_fetched and fname_table as before.
RmExtractedFrame ==
    LET dist == c_last'.call.key
        rec  == CacheBefore.pc[dist]
    IN  /\ is_extracted(CacheAfter, dist) = None
        /\ dist \in DOMAIN package_cache_'
        /\ package_cache_'[dist].files = rec.files
        /\ package_cache_'[dist].urls = rec.urls
        /\ is_fetched(CacheAfter, dist) = is_fetched(CacheBefore, dist)
        /\ fname_table' = CacheBefore.ft

\* After the following extract(dist): is_extracted(dist) is the archive path
\* without .tar.bz2, once in dirs.
ReExtracted ==
    LET dist == c_last'.call.key
        path == CDir(package_cache_[dist].files[1][2])
    IN  /\ c_last'.err = "none"
        /\ is_extracted(CacheAfter, dist) = path
        /\ Occurrences(package_cache_'[dist].dirs, path) = 1

\* C23 as stated: rm_extracted(dist) removes only the extracted side of the
\* record: is_extracted(dist) gives nothing and dist's directory is not in
\* extracted(), while key, files, urls, is_fetched(dist) and fname_table are
\* unchanged; a following extract(dist) makes is_extracted(dist) the archive
\* path without .tar.bz2, once in dirs.
C23_RmExtractedOnlyDirs ==
    [][/\ RmExtractedStep =>
            /\ RmExtractedFrame
            /\ Range(CacheBefore.pc[c_last'.call.key].dirs)
                   \cap extracted(package_cache_') = {}
       /\ ExtractAfterRmStep => ReExtracted]_vars

(***************************************************************************)
(* Properties of rm_rf, continued (specification SpecRm).                  *)
(***************************************************************************)
\* C24 as stated: rm_rf makes at most max_retries + 1 removal rounds; on a
\* directory whose removal keeps failing it retries max_retries times and
\* then makes a final attempt whose error reaches the caller.
C24_RetriesThenRaises ==
    /\ r_node.rounds <= max_retries + 1
    /\ (r_pc \in {"returned", "raised"} /\ r_in.kind = "dir"
            /\ r_node.exists) =>
           (r_pc = "raised" /\ r_node.rounds = max_retries + 1)

(***************************************************************************)
(* Properties of try_hard_link (specification SpecProbe).                  *)
(***************************************************************************)
\* C25 as stated: try_hard_link returns true iff the hard link could be
\* made, and when it returns <prefix>/.tmp-<tail> does not exist and the
\* prefix directory is as before: a prefix that existed still exists, one
\* the probe created is gone.
C25_ProbeCleansUp ==
    t_pc = "returned" =>
        /\ (t_res.ret = "True") = t_res.linked
        /\ t_res.ret \in {"True", "False"}
        /\ ProbeDst \notin t_files
        /\ (PREFIX \in t_dirs) = (PREFIX \in t_in.dirs)

(***************************************************************************)
(* Properties of unlink's frame (specification Spec).                      *)
(***************************************************************************)
\* path is the prefix or lies below it
InPrefix(path) ==
    Len(path) >= Len(PREFIX) /\ SubSeq(path, 1, Len(PREFIX)) = PREFIX

\* the paths of the record's files list
ListedPaths == {join(PREFIX, cur.ufiles[i]) : i \in 1..Len(cur.ufiles)}

Below(d, q) == Len(q) > Len(d) /\ SubSeq(q, 1, Len(d)) = d

UnlinkStepFrame ==
    /\ \A q \in DOMAIN files \ DOMAIN files' : q \in ListedPaths /\ InPrefix(q)
    /\ \A d \in dirs \ dirs' :
        /\ InPrefix(d)
        /\ \A q \in DOMAIN files' \cup dirs' : ~Below(d, q)
    /\ pc = "u_dirs" =>
        \A d \in UnlinkDirSet(cur.ufiles) \cap dirs' :
            ~DirEmpty(dirs', files', metaFiles', sidecars', d)

\* C26 as stated: a step of unlink removes only files of the record's files
\* list and only empty directories, a directory after the directories
\* below it (so none that its clean-up emptied is left), and nothing it
\* removes lies outside the prefix, whatever the manifest is.
C26_UnlinkTouchesOnlyPackage == [][cur.kind = "unlink" => UnlinkStepFrame]_vars

\* some file of the record's files list has not been attempted yet
UnlinkFilesPending ==
    cur.kind = "unlink" /\ pc = "u_files" /\ cur.idx <= Len(cur.ufiles)

C28_ScriptEnvPerCall ==
    /\ [](s_call.ran =>
            /\ s_call.action # "pre-link" => s_given["SOURCE_DIR"].by # "engine"
            /\ s_given["PREFIX"] =
                 ByEngine(EnvPrefixOr(s_call.env_prefix, s_call.prefix))
            /\ s_given["PKG_NAME"] = ByEngine(RSplitTwiceHead(s_call.dist, Dash))
            /\ s_given["PKG_BUILDNUM"] = ByEngine(RSplitOnceLast(s_call.dist, Dash)))
    /\ [][s_environ' = s_environ]_vars
====
